---- MODULE Spec2Model ----
(***************************************************************************)
(* Task service of the todo application: the Prisma/PostgreSQL store with  *)
(* its two tables, the Joi schemas, TaskService, UserService.deleteUser    *)
(* and the task controllers' status-code translation.                      *)
(*                                                                         *)
(* Nullable columns and nullable inputs are sets of at most one element:   *)
(* {} is null, {v} is the value v.  Input objects (creation data, patches, *)
(* filters) are records whose DOMAIN is the set of keys present, so that   *)
(* "absent" (key not in DOMAIN) and "null" (key present, value {}) differ. *)
(* Strings that are searched or trimmed are sequences of characters.       *)
(***************************************************************************)
EXTENDS Integers, Sequences, FiniteSets, TLC

VARIABLES users, accounts, tasks, nextId, recent, last, pend

vars == <<users, accounts, tasks, nextId, recent, last, pend>>

(***************************************************************************)
(* Bounds of the model.                                                    *)
(***************************************************************************)
MaxTasks == 2

MaxInflight == 2

MaxRaceTasks == 1

\* The largest number of tasks in a store that starts out filled.
MaxBulk == 52

\* The largest number of users registered at a time.
MaxUsers == 2

(***************************************************************************)
(* Strings.                                                                *)
(***************************************************************************)
Lower(c) ==
    CASE c = "A" -> "a"
      [] c = "B" -> "b"
      [] OTHER -> c

\* A string left as it was written.
asWritten(s) == s

toLowerCase(s) == [i \in 1..Len(s) |-> Lower(s[i])]

RECURSIVE trimStart(_)
trimStart(s) ==
    IF s # << >> /\ Head(s) = " " THEN trimStart(Tail(s)) ELSE s

RECURSIVE trimEnd(_)
trimEnd(s) ==
    IF s # << >> /\ s[Len(s)] = " " THEN trimEnd(SubSeq(s, 1, Len(s) - 1)) ELSE s

trim(s) == trimEnd(trimStart(s))

contains(s, q) ==
    \E i \in 1..(Len(s) - Len(q) + 1) : SubSeq(s, i, i + Len(q) - 1) = q

\* Variant of containsInsensitive that compares letter case too.
containsSensitive(col, q) == \E s \in col : contains(s, q)

\* Prisma's { contains: q, mode: 'insensitive' } on a nullable text column:
\* a null column matches nothing.
containsInsensitive(col, q) ==
    \E s \in col : contains(toLowerCase(s), toLowerCase(q))

(***************************************************************************)
(* Enumerations of the schema, in their declaration order.                 *)
(***************************************************************************)
TaskStatus == <<"PENDING", "IN_PROGRESS", "COMPLETED">>

TaskPriority == <<"LOW", "MEDIUM", "HIGH">>

Values(enum) == {enum[i] : i \in 1..Len(enum)}

SortFields == {"createdAt", "updatedAt", "dueDate", "title", "priority", "status"}

SortOrders == {"asc", "desc"}

(***************************************************************************)
(* Error messages.                                                         *)
(***************************************************************************)
NotFoundOrDenied == "Task not found or access denied"

AssigneeMissing == "Assigned user does not exist"

ValidationError == "Validation error"

OK == "ok"

\* What a service call throws: a plain Error with a message, or a Prisma
\* known-request error with a code.
PlainError(m) == [prisma |-> "", message |-> m]

PrismaError(code) == [prisma |-> code, message |-> ""]

handleDatabaseError(error) ==
    CASE error.prisma = "P2002" -> "A record with this value already exists"
      [] error.prisma = "P2025" -> "The requested record was not found"
      [] error.prisma = "P2003" -> "Referenced record does not exist"
      [] error.prisma = "P2014" -> "The change would violate a required relation"
      [] error.prisma # "" -> "A database error occurred"
      [] OTHER -> "An internal error occurred"

(***************************************************************************)
(* Joi schemas.  Each schema is a pair: the error test and the value that  *)
(* validate() returns (trimmed strings, defaults applied).                 *)
(***************************************************************************)
TitleMax == 255

DescriptionMax == 2000

SearchMin == 2

SearchMax == 255

PageDefault == 1

LimitDefault == 20

LimitMax == 100

\* The instant at which Joi evaluates .min('now'); due dates are integers.
Now == 2

Has(d, k) == k \in DOMAIN d

CreationKeys == {"title", "description", "status", "priority", "dueDate", "assigneeId"}

taskCreationError(d) ==
    \/ DOMAIN d \ CreationKeys # {}
    \/ ~Has(d, "title")
    \/ Has(d, "title") /\ (Len(trim(d.title)) < 1 \/ Len(trim(d.title)) > TitleMax)
    \/ Has(d, "description") /\ Len(trim(d.description)) > DescriptionMax
    \/ Has(d, "status") /\ d.status \notin Values(TaskStatus)
    \/ Has(d, "priority") /\ d.priority \notin Values(TaskPriority)
    \/ Has(d, "dueDate") /\ d.dueDate < Now
    \/ Has(d, "assigneeId") /\ d.assigneeId = ""

\* Variant of taskCreationValue with other defaults.
taskCreationValueOtherDefaults(d) ==
    [k \in DOMAIN d \cup {"status", "priority"} |->
        CASE k = "title" -> trim(d.title)
          [] k = "description" -> trim(d.description)
          [] k = "status" -> IF Has(d, "status") THEN d.status ELSE "IN_PROGRESS"
          [] k = "priority" -> IF Has(d, "priority") THEN d.priority ELSE "LOW"
          [] OTHER -> d[k]]

taskCreationValue(d) ==
    [k \in DOMAIN d \cup {"status", "priority"} |->
        CASE k = "title" -> trim(d.title)
          [] k = "description" -> trim(d.description)
          [] k = "status" -> IF Has(d, "status") THEN d.status ELSE "PENDING"
          [] k = "priority" -> IF Has(d, "priority") THEN d.priority ELSE "MEDIUM"
          [] OTHER -> d[k]]

UpdateKeys == CreationKeys

\* Variant of taskUpdateError for a schema that lets unknown keys through.
taskUpdateErrorUnknownAllowed(d) ==
    \/ Has(d, "title") /\ (Len(trim(d.title)) < 1 \/ Len(trim(d.title)) > TitleMax)
    \/ Has(d, "status") /\ d.status \notin Values(TaskStatus)

\* In a patch dueDate and assigneeId are nullable: {} is null, {v} a value.
taskUpdateError(d) ==
    \/ DOMAIN d \ UpdateKeys # {}
    \/ Has(d, "title") /\ (Len(trim(d.title)) < 1 \/ Len(trim(d.title)) > TitleMax)
    \/ Has(d, "description") /\ Len(trim(d.description)) > DescriptionMax
    \/ Has(d, "status") /\ d.status \notin Values(TaskStatus)
    \/ Has(d, "priority") /\ d.priority \notin Values(TaskPriority)
    \/ Has(d, "assigneeId") /\ d.assigneeId = {""}

taskUpdateValue(d) ==
    [k \in DOMAIN d |->
        CASE k = "title" -> trim(d.title)
          [] k = "description" -> trim(d.description)
          [] OTHER -> d[k]]

FilterKeys ==
    {"status", "priority", "assigneeId", "creatorId", "dueDateFrom", "dueDateTo",
     "search", "page", "limit", "sortBy", "sortOrder"}

\* Variant of taskFilterError for a schema without the length rules of search.
taskFilterErrorAnySearch(f) ==
    \/ DOMAIN f \ FilterKeys # {}
    \/ Has(f, "status") /\ f.status \notin Values(TaskStatus)
    \/ Has(f, "page") /\ f.page < PageDefault
    \/ Has(f, "limit") /\ (f.limit < 1 \/ f.limit > LimitMax)

taskFilterError(f) ==
    \/ DOMAIN f \ FilterKeys # {}
    \/ Has(f, "status") /\ f.status \notin Values(TaskStatus)
    \/ Has(f, "priority") /\ f.priority \notin Values(TaskPriority)
    \/ Has(f, "assigneeId") /\ f.assigneeId = ""
    \/ Has(f, "creatorId") /\ f.creatorId = ""
    \/ Has(f, "search") /\ (Len(trim(f.search)) < SearchMin \/ Len(trim(f.search)) > SearchMax)
    \/ Has(f, "page") /\ f.page < PageDefault
    \/ Has(f, "limit") /\ (f.limit < 1 \/ f.limit > LimitMax)
    \/ Has(f, "sortBy") /\ f.sortBy \notin SortFields
    \/ Has(f, "sortOrder") /\ f.sortOrder \notin SortOrders

taskFilterValue(f) ==
    [k \in DOMAIN f \cup {"page", "limit", "sortBy", "sortOrder"} |->
        CASE k = "search" -> trim(f.search)
          [] k = "page" -> IF Has(f, "page") THEN f.page ELSE PageDefault
          [] k = "limit" -> IF Has(f, "limit") THEN f.limit ELSE LimitDefault
          [] k = "sortBy" -> IF Has(f, "sortBy") THEN f.sortBy ELSE "createdAt"
          [] k = "sortOrder" -> IF Has(f, "sortOrder") THEN f.sortOrder ELSE "desc"
          [] OTHER -> f[k]]

(***************************************************************************)
(* Joi schemas of the user service.  An email is a sequence of characters. *)
(***************************************************************************)
EmailMax == 255

NameMin == 2

NameMax == 100

PasswordMin == 8

PasswordMax == 128

\* Joi's email(): one "@" with text on both sides and no blank.
validEmail(e) ==
    /\ \E i \in 2..(Len(e) - 1) : e[i] = "@" /\ \A j \in 1..Len(e) : e[j] = "@" => j = i
    /\ \A i \in 1..Len(e) : e[i] # " "

\* The characters of /^[a-zA-Z\s'-]+$/ among those of the model.
NameChars == {"a", "A", "b", "B", "c", "d", "x", " ", "'", "-"}

validName(n) ==
    /\ Len(trim(n)) >= NameMin
    /\ Len(trim(n)) <= NameMax
    /\ \A i \in 1..Len(n) : n[i] \in NameChars

userRegistrationError(d) ==
    \/ DOMAIN d # {"email", "name", "password"}
    \/ ~validEmail(d.email)
    \/ Len(d.email) > EmailMax
    \/ ~validName(d.name)
    \/ Len(d.password) < PasswordMin
    \/ Len(d.password) > PasswordMax

userRegistrationValue(d) == [d EXCEPT !.name = trim(@)]

userLoginError(d) ==
    \/ DOMAIN d # {"email", "password"}
    \/ ~validEmail(d.email)
    \/ d.password = << >>

userUpdateError(d) ==
    \/ DOMAIN d \ {"name", "email"} # {}
    \/ Has(d, "name") /\ ~validName(d.name)
    \/ Has(d, "email") /\ (~validEmail(d.email) \/ Len(d.email) > EmailMax)

userUpdateValue(d) ==
    [k \in DOMAIN d |-> IF k = "name" THEN trim(d.name) ELSE d[k]]

(***************************************************************************)
(* The store: tables users and tasks.  A task row is                       *)
(*   [id, title, description, status, priority, dueDate, creatorId,        *)
(*    assigneeId]                                                          *)
(* with description, dueDate and assigneeId nullable.  Ids are handed out  *)
(* in creation order, so the order of ids is the order of created_at;      *)
(* recent lists the ids of the stored tasks from the most recently written *)
(* to the least recently written one, which is the order of updated_at.    *)
(* users is the set of the ids of the rows of table users, accounts the    *)
(* rows themselves: [id, email, name, passwordHash].                       *)
(* A store value st is [users, accounts, tasks, nextId, recent].           *)
(***************************************************************************)
Store ==
    [users |-> users, accounts |-> accounts, tasks |-> tasks, nextId |-> nextId,
     recent |-> recent]

Remove(seq, x) == SelectSeq(seq, LAMBDA y : y # x)

\* Variant of visible without the filter: every task is visible to every user.
visibleToAll(t, userId) == TRUE

\* where: { OR: [{ creatorId: userId }, { assigneeId: userId }] }
visible(t, userId) == t.creatorId = userId \/ userId \in t.assigneeId

\* Variant of findFirstVisible that looks the row up by id alone.
findFirstById(st, taskId, userId) == {t \in st.tasks : t.id = taskId}

\* prisma.task.findFirst({ where: { id, OR: [...] } }): null or the row.
findFirstVisible(st, taskId, userId) ==
    {t \in st.tasks : t.id = taskId /\ visible(t, userId)}

\* Variant of findFirstCreated that also accepts the assignee.
findFirstCreatedOrAssigned(st, taskId, userId) ==
    {t \in st.tasks : t.id = taskId /\ (t.creatorId = userId \/ userId \in t.assigneeId)}

\* prisma.task.findFirst({ where: { id, creatorId } })
findFirstCreated(st, taskId, userId) ==
    {t \in st.tasks : t.id = taskId /\ t.creatorId = userId}

\* Variant of findUniqueUser that finds a user for every id.
findUniqueUserAlways(st, id) == {id}

\* prisma.user.findUnique({ where: { id } }): null or the user.
findUniqueUser(st, id) == {u \in st.users : u = id}

\* Variant of ForeignKeysHold for a store without the two constraints.
ForeignKeysUnchecked(st, t) == TRUE

\* The foreign keys tasks_creator_id_fkey and tasks_assignee_id_fkey.
ForeignKeysHold(st, t) == t.creatorId \in st.users /\ t.assigneeId \subseteq st.users

\* prisma.task.create({ data }): the row built from the validated value.
taskCreateData(st, creatorId, value) ==
    [id |-> st.nextId,
     title |-> value.title,
     description |-> IF Has(value, "description") /\ value.description # << >>
                     THEN {value.description} ELSE {},
     status |-> value.status,
     priority |-> value.priority,
     dueDate |-> IF Has(value, "dueDate") THEN {value.dueDate} ELSE {},
     creatorId |-> creatorId,
     assigneeId |-> IF Has(value, "assigneeId") THEN {value.assigneeId} ELSE {}]

taskCreate(st, t) ==
    [st EXCEPT !.tasks = @ \cup {t}, !.nextId = @ + 1, !.recent = <<t.id>> \o @]

\* Variant of taskUpdatePayload that drops null assigneeId and dueDate.
taskUpdatePayloadTruthy(value) ==
    [k \in {j \in DOMAIN value : ~(j \in {"assigneeId", "dueDate"} /\ value[j] = {})} |->
        CASE k = "description" -> {value.description}
          [] OTHER -> value[k]]

\* updatePayload of updateTask: the keys of the value that are not undefined.
\* description is stored as given (an empty string stays an empty string).
taskUpdatePayload(value) ==
    [k \in DOMAIN value |->
        CASE k = "description" -> {value.description}
          [] OTHER -> value[k]]

applyPayload(t, payload) ==
    [k \in DOMAIN t |-> IF k \in DOMAIN payload THEN payload[k] ELSE t[k]]

\* prisma.task.update({ where: { id }, data }) on an existing row; the
\* write stamps updated_at, except that a write without data may leave it.
taskUpdate(st, taskId, payload) ==
    LET old == CHOOSE t \in st.tasks : t.id = taskId
        new == applyPayload(old, payload)
        written == (st.tasks \ {old}) \cup {new}
        stamped == <<taskId>> \o Remove(st.recent, taskId)
    IN  {[st EXCEPT !.tasks = written, !.recent = stamped]}
        \cup (IF DOMAIN payload = {} THEN {st} ELSE {})

\* prisma.task.delete({ where: { id } })
taskDelete(st, taskId) ==
    [st EXCEPT !.tasks = {t \in @ : t.id # taskId}, !.recent = Remove(@, taskId)]

\* prisma.user.delete({ where: { id } }) with ON DELETE CASCADE on creator_id
\* and ON DELETE SET NULL on assignee_id.
userDelete(st, id) ==
    LET kept == {t \in st.tasks : t.creatorId # id}
        keptIds == {t.id : t \in kept}
    IN  [st EXCEPT
            !.users = @ \ {id},
            !.accounts = {a \in @ : a.id # id},
            !.tasks = {[t EXCEPT !.assigneeId = @ \ {id}] : t \in kept},
            !.recent = SelectSeq(@, LAMBDA i : i \in keptIds)]

\* The codes with which the store rejects a write that connects a row to a
\* user that does not exist.
MissingReferenceCodes == {"P2025", "P2003"}

(***************************************************************************)
(* ORDER BY.  Before(f, st, a, b): row a sorts strictly before row b in    *)
(* ascending order of column f.  Rows that compare equal come in any order.*)
(***************************************************************************)
Pos(seq, x) == CHOOSE i \in 1..Len(seq) : seq[i] = x

Alphabet == <<" ", "a", "A", "b", "B", "c", "d", "x">>

RECURSIVE TextBefore(_, _)
TextBefore(s, t) ==
    IF t = << >> THEN FALSE
    ELSE IF s = << >> THEN TRUE
    ELSE IF Head(s) = Head(t) THEN TextBefore(Tail(s), Tail(t))
    ELSE Pos(Alphabet, Head(s)) < Pos(Alphabet, Head(t))

Before(f, st, a, b) ==
    CASE f = "createdAt" -> a.id < b.id
      [] f = "updatedAt" -> Pos(st.recent, a.id) > Pos(st.recent, b.id)
      [] f = "dueDate" ->
            a.dueDate # {} /\ (b.dueDate = {} \/ \E x \in a.dueDate, y \in b.dueDate : x < y)
      [] f = "title" -> TextBefore(a.title, b.title)
      [] f = "priority" -> Pos(TaskPriority, a.priority) < Pos(TaskPriority, b.priority)
      [] f = "status" -> Pos(TaskStatus, a.status) < Pos(TaskStatus, b.status)

\* The number of rows of S that the order puts strictly before row m.
rank(st, S, f, dir, m) ==
    Cardinality({x \in S : IF dir = "asc" THEN Before(f, st, x, m) ELSE Before(f, st, m, x)})

\* The orders of the rows R that remain to be placed from position i on:
\* a row may come next when fewer than i rows must precede it.
RECURSIVE placeFrom(_, _, _)
placeFrom(rk, R, i) ==
    IF R = {} THEN {<< >>}
    ELSE UNION {{<<m>> \o s : s \in placeFrom(rk, R \ {m}, i + 1)} :
                  m \in {x \in R : rk[x] < i}}

\* The sequences in which the store may return the rows of S: rows that
\* the order does not separate come in any order.
orderBy(st, S, f, dir) ==
    placeFrom([m \in S |-> rank(st, S, f, dir, m)], S, 1)

\* Variant of page that skips and takes nothing away.
pageUnlimited(s, skip, take) == s

\* skip / take
page(s, skip, take) ==
    [i \in 1..(IF Len(s) - skip < take
               THEN (IF Len(s) > skip THEN Len(s) - skip ELSE 0)
               ELSE take) |-> s[skip + i]]

SearchTake == 50

(***************************************************************************)
(* TaskService.getUserTasks: the where clause is an object whose keys are  *)
(* conjoined by the store.                                                 *)
(***************************************************************************)
\* whereClause with the slip of section 1 of the design: the search clause
\* replaces the visibility clause instead of joining it.
whereClauseSearchReplacesOR(userId, value) ==
    LET keys == (IF Has(value, "search") THEN {"AND"} ELSE {"OR"})
                \cup (DOMAIN value \cap {"status", "priority", "assigneeId", "creatorId"})
    IN  [k \in keys |->
            CASE k = "OR" -> userId
              [] k = "AND" -> [OR2 |-> value.search]
              [] OTHER -> value[k]]

whereClause(userId, value) ==
    LET keys == {"OR"}
                \cup (DOMAIN value \cap {"status", "priority", "assigneeId", "creatorId"})
                \cup (IF Has(value, "dueDateFrom") \/ Has(value, "dueDateTo")
                      THEN {"dueDate"} ELSE {})
        built == [k \in keys |->
                    CASE k = "OR" -> userId
                      [] k = "dueDate" ->
                            [j \in DOMAIN value \cap {"dueDateFrom", "dueDateTo"} |-> value[j]]
                      [] OTHER -> value[k]]
    IN  IF Has(value, "search")
        THEN [k \in (keys \ {"OR"}) \cup {"AND"} |->
                IF k = "AND" THEN [OR1 |-> userId, OR2 |-> value.search] ELSE built[k]]
        ELSE built

\* The store's evaluation of a where clause on one row.
matches(w, t) ==
    /\ Has(w, "OR") => visible(t, w.OR)
    /\ Has(w, "status") => t.status = w.status
    /\ Has(w, "priority") => t.priority = w.priority
    /\ Has(w, "assigneeId") => t.assigneeId = {w.assigneeId}
    /\ Has(w, "creatorId") => t.creatorId = w.creatorId
    /\ Has(w, "dueDate") =>
          /\ t.dueDate # {}
          /\ Has(w.dueDate, "dueDateFrom") => \A x \in t.dueDate : x >= w.dueDate.dueDateFrom
          /\ Has(w.dueDate, "dueDateTo") => \A x \in t.dueDate : x <= w.dueDate.dueDateTo
    /\ Has(w, "AND") =>
          /\ Has(w.AND, "OR1") => visible(t, w.AND.OR1)
          /\ Has(w.AND, "OR2") =>
                \/ containsInsensitive({t.title}, w.AND.OR2)
                \/ containsInsensitive(t.description, w.AND.OR2)

findMany(st, w) == {t \in st.tasks : matches(w, t)}

\* Variant of ceil that rounds down.
roundDown(total, limit) == total \div limit

\* Math.ceil(total / value.limit)
ceil(total, limit) == (total + limit - 1) \div limit

\* The results getUserTasks may return for valid filters.
getUserTasks(st, userId, filters) ==
    LET value == taskFilterValue(filters)
        w == whereClause(userId, value)
        skip == (value.page - 1) * value.limit
        rows == findMany(st, w)
        total == Cardinality(rows)
    IN  {[tasks |-> page(s, skip, value.limit),
          total |-> total,
          page |-> value.page,
          limit |-> value.limit,
          totalPages |-> ceil(total, value.limit)] :
            s \in orderBy(st, rows, value.sortBy, value.sortOrder)}

searchWhereTextOnly(userId, searchQuery) == [AND |-> [OR2 |-> searchQuery]]

\* The where clause of searchTasks.
searchWhere(userId, searchQuery) == [AND |-> [OR1 |-> userId, OR2 |-> searchQuery]]

\* Variant of searchTasksQueries without the early return.
searchTasksQueriesAlways(userId, searchQuery) == {searchWhere(userId, searchQuery)}

\* The where clauses of the findMany calls that searchTasks issues: none
\* when the query is empty after trim().
searchTasksQueries(userId, searchQuery) ==
    IF trim(searchQuery) = << >> THEN {} ELSE {searchWhere(userId, searchQuery)}

\* The results searchTasks may return.
searchTasks(st, userId, searchQuery) ==
    LET queries == searchTasksQueries(userId, searchQuery)
    IN  IF queries = {}
        THEN {<< >>}
        ELSE {page(s, 0, SearchTake) :
                s \in UNION {orderBy(st, findMany(st, w), "updatedAt", "desc") : w \in queries}}

getTaskByIdUnscoped(st, taskId, userId) == {t \in st.tasks : t.id = taskId}

\* getTaskById returns null or the row.
getTaskById(st, taskId, userId) == findFirstVisible(st, taskId, userId)

(***************************************************************************)
(* Service operations.  A request r is [op, actor, id, data, pc]: data is  *)
(* the record of the remaining arguments of the call, and pc names         *)
(* the store call the request is about to make.  Each ...Step operator is  *)
(* the code from one store call to the next: the set of its possible       *)
(* results [st, pc, out, res], where pc = "done" when the operation has    *)
(* returned (out = OK, res the value returned) or thrown (out the message  *)
(* of the error that reaches the caller).                                  *)
(***************************************************************************)
\* Variant of userSummary for a relation joined without a select.
wholeUser(a) == a

\* select: { id: true, name: true, email: true }
userSummary(a) == [id |-> a.id, name |-> a.name, email |-> a.email]

\* include: { creator: { select }, assignee: { select } }: the row with its
\* creator and, when it has one, its assignee.
taskInclude(acc, t) ==
    [k \in DOMAIN t \cup {"creator", "assignee"} |->
        CASE k = "creator" -> {userSummary(a) : a \in {b \in acc : b.id = t.creatorId}}
          [] k = "assignee" -> {userSummary(a) : a \in {b \in acc : b.id \in t.assigneeId}}
          [] OTHER -> t[k]]

\* The value a TaskService call hands to its caller: the rows of its
\* result with their relations.
returned(acc, r, x) ==
    IF x.out # OK
    THEN {}
    ELSE CASE r.op \in {"createTask", "getTaskById", "updateTask", "updateTaskStatus"} ->
                {taskInclude(acc, t) : t \in x.res}
           [] r.op = "getUserTasks" ->
                [x.res EXCEPT !.tasks = [i \in DOMAIN @ |-> taskInclude(acc, @[i])]]
           [] r.op = "searchTasks" ->
                [i \in DOMAIN x.res |-> taskInclude(acc, x.res[i])]
           [] OTHER -> x.res

Done(st, out, res) == [st |-> st, pc |-> "done", out |-> out, res |-> res]

Cont(st, pc) == [st |-> st, pc |-> pc, out |-> "", res |-> {}]

\* The catch blocks of the service operations.
createTaskCatch(error) ==
    IF error.message = AssigneeMissing THEN error.message ELSE handleDatabaseError(error)

updateTaskCatch(error) ==
    IF error.message = NotFoundOrDenied \/ error.message = AssigneeMissing
    THEN error.message ELSE handleDatabaseError(error)

deleteTaskCatch(error) ==
    IF error.message = NotFoundOrDenied THEN error.message ELSE handleDatabaseError(error)

updateTaskStatusCatch(error) == handleDatabaseError(error)

createTaskWrite(st, r) ==
    LET value == taskCreationValue(r.data)
        t == taskCreateData(st, r.actor, value)
    IN  IF ForeignKeysHold(st, t)
        THEN {Done(taskCreate(st, t), OK, {t})}
        ELSE {Done(st, createTaskCatch(PrismaError("P2003")), {})}

\* Variant of createTaskUserLookups that looks a user up for every task.
createTaskUserLookupsAlways(value) ==
    {IF "assigneeId" \in DOMAIN value THEN value.assigneeId ELSE ""}

\* The ids that createTask passes to prisma.user.findUnique: that of the
\* assignee, if (value.assigneeId).
createTaskUserLookups(value) ==
    IF Has(value, "assigneeId") /\ value.assigneeId # "" THEN {value.assigneeId} ELSE {}

\* The ids that updateTask passes to prisma.user.findUnique: in a patch a
\* null assigneeId is {}.
updateTaskUserLookups(value) ==
    IF Has(value, "assigneeId") THEN value.assigneeId ELSE {}

createTaskStep(st, r) ==
    IF r.pc = "start"
    THEN IF taskCreationError(r.data)
         THEN {Done(st, ValidationError, {})}
         ELSE LET value == taskCreationValue(r.data)
              IN  IF createTaskUserLookups(value) # {}
                  THEN IF \E a \in createTaskUserLookups(value) : findUniqueUser(st, a) = {}
                       THEN {Done(st, createTaskCatch(PlainError(AssigneeMissing)), {})}
                       ELSE {Cont(st, "create")}
                  ELSE createTaskWrite(st, r)
    ELSE createTaskWrite(st, r)

getTaskByIdStep(st, r) == {Done(st, OK, getTaskById(st, r.id, r.actor))}

\* The where clauses of the findMany and count calls that getUserTasks
\* issues: none when the filters fail validation.
getUserTasksQueries(userId, filters) ==
    IF taskFilterError(filters)
    THEN {}
    ELSE {whereClause(userId, taskFilterValue(filters))}

getUserTasksStep(st, r) ==
    IF getUserTasksQueries(r.actor, r.data) = {}
    THEN {Done(st, ValidationError, {})}
    ELSE {Done(st, OK, x) : x \in getUserTasks(st, r.actor, r.data)}

searchTasksStep(st, r) == {Done(st, OK, x) : x \in searchTasks(st, r.actor, r.data.q)}

\* Variant of taskUpdateWrite that reports success when the row is missing.
taskUpdateWriteIgnoresMissing(st, r, payload) ==
    {[ok |-> TRUE, st |-> st, error |-> [prisma |-> "", message |-> ""],
      res |-> {t \in st.tasks : t.id = r.id}]}

\* prisma.task.update of updateTask and updateTaskStatus, with the error the
\* store raises when the row, or a user the payload connects, is missing.
taskUpdateWrite(st, r, payload) ==
    IF \A t \in st.tasks : t.id # r.id
    THEN {[ok |-> FALSE, st |-> st, error |-> PrismaError("P2025"), res |-> {}]}
    ELSE IF Has(payload, "assigneeId") /\ ~(payload.assigneeId \subseteq st.users)
    THEN {[ok |-> FALSE, st |-> st, error |-> PrismaError(c), res |-> {}] :
            c \in MissingReferenceCodes}
    ELSE {[ok |-> TRUE, st |-> w, error |-> PrismaError(""),
           res |-> {t \in w.tasks : t.id = r.id}] : w \in taskUpdate(st, r.id, payload)}

\* Variant of updateTaskStep that looks the task up before it validates.
updateTaskStepFetchFirst(st, r) ==
    CASE r.pc = "start" ->
            IF {t \in st.tasks : t.id = r.id
                                 /\ (t.creatorId = r.actor \/ t.assigneeId = {r.actor})} = {}
            THEN {[st |-> st, pc |-> "done", out |-> "Task not found or access denied",
                   res |-> {}]}
            ELSE IF \/ DOMAIN r.data \ {"title", "description", "status", "priority",
                                        "dueDate", "assigneeId"} # {}
                    \/ "status" \in DOMAIN r.data
                       /\ r.data.status \notin {"PENDING", "IN_PROGRESS", "COMPLETED"}
            THEN {[st |-> st, pc |-> "done", out |-> "Validation error", res |-> {}]}
            ELSE {[st |-> st, pc |-> "update", out |-> "", res |-> {}]}
      [] OTHER ->
            {[st |-> st, pc |-> "done", out |-> "ok", res |-> {}]}

updateTaskStep(st, r) ==
    LET value == taskUpdateValue(r.data)
    IN  CASE r.pc = "start" ->
                IF taskUpdateError(r.data)
                THEN {Done(st, ValidationError, {})}
                ELSE IF findFirstVisible(st, r.id, r.actor) = {}
                THEN {Done(st, updateTaskCatch(PlainError(NotFoundOrDenied)), {})}
                ELSE IF updateTaskUserLookups(value) # {}
                THEN {Cont(st, "assignee")}
                ELSE {Cont(st, "update")}
          [] r.pc = "assignee" ->
                IF \E a \in updateTaskUserLookups(value) : findUniqueUser(st, a) = {}
                THEN {Done(st, updateTaskCatch(PlainError(AssigneeMissing)), {})}
                ELSE {Cont(st, "update")}
          [] OTHER ->
                {IF w.ok THEN Done(w.st, OK, w.res)
                         ELSE Done(st, updateTaskCatch(w.error), {}) :
                    w \in taskUpdateWrite(st, r, taskUpdatePayload(value))}

\* Variant of deleteTaskStep that removes the row before it looks at the
\* creator.
deleteTaskStepDeleteFirst(st, r) ==
    IF {t \in st.tasks : t.id = r.id /\ t.creatorId = r.actor} = {}
    THEN {[st |-> [st EXCEPT !.tasks = {t \in @ : t.id # r.id}], pc |-> "done",
           out |-> "Task not found or access denied", res |-> {}]}
    ELSE {[st |-> [st EXCEPT !.tasks = {t \in @ : t.id # r.id}], pc |-> "done",
           out |-> "ok", res |-> {}]}

deleteTaskStep(st, r) ==
    IF r.pc = "start"
    THEN IF findFirstCreated(st, r.id, r.actor) = {}
         THEN {Done(st, deleteTaskCatch(PlainError(NotFoundOrDenied)), {})}
         ELSE {Cont(st, "delete")}
    ELSE IF \A t \in st.tasks : t.id # r.id
         THEN {Done(st, deleteTaskCatch(PrismaError("P2025")), {})}
         ELSE {Done(taskDelete(st, r.id), OK, {})}

\* Variant of updateTaskStatusStep that lets no completed task leave that
\* status.
updateTaskStatusStepForwardOnly(st, r) ==
    IF \/ {t \in st.tasks : t.id = r.id
                             /\ (t.creatorId = r.actor \/ t.assigneeId = {r.actor})} = {}
       \/ \E t \in st.tasks : t.id = r.id /\ t.status = "COMPLETED"
                                /\ r.data.status # "COMPLETED"
    THEN {[st |-> st, pc |-> "done", out |-> "An internal error occurred", res |-> {}]}
    ELSE {[st |-> [st EXCEPT !.tasks = {IF t.id = r.id
                                       THEN [t EXCEPT !.status = r.data.status]
                                       ELSE t : t \in @}],
           pc |-> "done", out |-> "ok",
           res |-> {[t EXCEPT !.status = r.data.status] : t \in {u \in st.tasks : u.id = r.id}}]}

\* Variant of updateTaskStatusStep without the permission check.
updateTaskStatusStepUnchecked(st, r) ==
    {[st |-> [st EXCEPT !.tasks = {IF t.id = r.id THEN [t EXCEPT !.status = r.data.status]
                                                  ELSE t : t \in @}],
      pc |-> "done", out |-> "ok",
      res |-> {[t EXCEPT !.status = r.data.status] : t \in {u \in st.tasks : u.id = r.id}}]}

updateTaskStatusStep(st, r) ==
    IF r.pc = "start"
    THEN IF findFirstVisible(st, r.id, r.actor) = {}
         THEN {Done(st, updateTaskStatusCatch(PlainError(NotFoundOrDenied)), {})}
         ELSE {Cont(st, "update")}
    ELSE {IF w.ok THEN Done(w.st, OK, w.res)
                  ELSE Done(st, updateTaskStatusCatch(w.error), {}) :
             w \in taskUpdateWrite(st, r, [status |-> r.data.status])}

\* UserService.deleteUser(id): r.data.id is the user's id.
deleteUserStep(st, r) ==
    IF findUniqueUser(st, r.data.id) = {}
    THEN {Done(st, handleDatabaseError(PrismaError("P2025")), {})}
    ELSE {Done(userDelete(st, r.data.id), OK, {})}

(***************************************************************************)
(* UserService.  The password utilities are collaborators whose code is    *)
(* not part of the service: validatePasswordStrength may accept or reject, *)
(* hashPassword yields some hash, comparePassword may answer yes or no.    *)
(* The id of a new row is any id that no row has.                          *)
(***************************************************************************)
UserIds == {"u1", "u2", "u3"}

PasswordInvalid == "Password validation failed"

Hashes == {"h1", "h2"}

\* const { passwordHash: _, ...userWithoutPassword } = user
userWithoutPassword(a) == [k \in DOMAIN a \ {"passwordHash"} |-> a[k]]

\* prisma.user.findUnique({ where: { email } })
findUniqueEmail(st, email) == {a \in st.accounts : a.email = email}

\* prisma.user.create({ data }): users_email_key rejects a second row with
\* the same email.
userCreate(st, row) ==
    IF findUniqueEmail(st, row.email) # {}
    THEN {Done(st, handleDatabaseError(PrismaError("P2002")), {})}
    ELSE {Done([st EXCEPT !.accounts = @ \cup {row}, !.users = @ \cup {row.id}],
               OK, {userWithoutPassword(row)})}

createUserStep(st, r) ==
    IF userRegistrationError(r.data)
    THEN {Done(st, ValidationError, {})}
    ELSE LET value == userRegistrationValue(r.data)
         IN  {Done(st, PasswordInvalid, {})}
             \cup UNION {userCreate(st, [id |-> id,
                                         email |-> toLowerCase(value.email),
                                         name |-> value.name,
                                         passwordHash |-> h]) :
                           id \in UserIds \ st.users, h \in Hashes}

authenticateUserStep(st, r) ==
    IF userLoginError(r.data)
    THEN {Done(st, ValidationError, {})}
    ELSE LET user == findUniqueEmail(st, toLowerCase(r.data.email))
         IN  {Done(st, OK, {})} \cup {Done(st, OK, {userWithoutPassword(a)}) : a \in user}

getUserByIdStep(st, r) ==
    {Done(st, OK, {userWithoutPassword(a) : a \in {b \in st.accounts : b.id = r.data.id}})}

getUserByEmailStep(st, r) ==
    {Done(st, OK, {userWithoutPassword(a) :
                     a \in findUniqueEmail(st, toLowerCase(r.data.email))})}

\* updatePayload of updateUser.
userUpdatePayload(value) ==
    [k \in DOMAIN value |-> IF k = "email" THEN toLowerCase(value.email) ELSE value[k]]

updateUserStep(st, r) ==
    IF userUpdateError(r.data.patch)
    THEN {Done(st, ValidationError, {})}
    ELSE LET payload == userUpdatePayload(userUpdateValue(r.data.patch))
             old == {a \in st.accounts : a.id = r.data.id}
         IN  IF old = {}
             THEN {Done(st, handleDatabaseError(PrismaError("P2025")), {})}
             ELSE IF Has(payload, "email")
                     /\ \E a \in st.accounts : a.id # r.data.id /\ a.email = payload.email
             THEN {Done(st, handleDatabaseError(PrismaError("P2002")), {})}
             ELSE {Done([st EXCEPT !.accounts = (@ \ {a}) \cup {applyPayload(a, payload)}],
                        OK, {userWithoutPassword(applyPayload(a, payload))}) : a \in old}

\* select: { id, email, name, ... } of getAllUsers
userListRow(a) == [id |-> a.id, email |-> a.email, name |-> a.name]

\* findMany with orderBy: { name: 'asc' }
getAllUsersStep(st, r) ==
    LET S == st.accounts
        rk == [m \in S |-> Cardinality({x \in S : TextBefore(x.name, m.name)})]
    IN  {Done(st, OK, [i \in DOMAIN s |-> userListRow(s[i])]) : s \in placeFrom(rk, S, 1)}

Step(st, r) ==
    CASE r.op = "createTask" -> createTaskStep(st, r)
      [] r.op = "getTaskById" -> getTaskByIdStep(st, r)
      [] r.op = "getUserTasks" -> getUserTasksStep(st, r)
      [] r.op = "searchTasks" -> searchTasksStep(st, r)
      [] r.op = "updateTask" -> updateTaskStep(st, r)
      [] r.op = "deleteTask" -> deleteTaskStep(st, r)
      [] r.op = "updateTaskStatus" -> updateTaskStatusStep(st, r)
      [] r.op = "deleteUser" -> deleteUserStep(st, r)
      [] r.op = "createUser" -> createUserStep(st, r)
      [] r.op = "authenticateUser" -> authenticateUserStep(st, r)
      [] r.op = "getUserById" -> getUserByIdStep(st, r)
      [] r.op = "getUserByEmail" -> getUserByEmailStep(st, r)
      [] r.op = "updateUser" -> updateUserStep(st, r)
      [] r.op = "getAllUsers" -> getAllUsersStep(st, r)

\* An operation run from r.pc to its end with no other request in between.
RECURSIVE Run(_, _)
Run(st, r) ==
    UNION {IF x.pc = "done" THEN {x} ELSE Run(x.st, [r EXCEPT !.pc = x.pc]) :
            x \in Step(st, r)}

Request(op, actor, id, data) ==
    [op |-> op, actor |-> actor, id |-> id, data |-> data, pc |-> "start"]

(***************************************************************************)
(* The controller of GET /api/tasks/search.  A parsed query-string value   *)
(* is a string or, for a repeated or bracketed key, not a string.  A       *)
(* response is its status, its error code, its data (none on an error) and *)
(* the calls of the search service that were made for it.                  *)
(***************************************************************************)
QueryMin == 2

Text(s) == [kind |-> "string", text |-> s]

NotText == [kind |-> "array", text |-> << >>]

Response(status, code, data, calls) ==
    [status |-> status, code |-> code, data |-> data, calls |-> calls]

\* The status that the task controllers answer for the outcome of their
\* service call.
updateTaskStatusResponse(out) ==
    CASE out = OK -> 200
      [] out = NotFoundOrDenied -> 404
      [] OTHER -> 500

\* The controller of PATCH /api/tasks/:id/status: the response and the store
\* it leaves.
updateTaskStatusController(st, user, id, body) ==
    IF user = {}
    THEN {[resp |-> Response(401, "UNAUTHORIZED", {}, {}), st |-> st]}
    ELSE IF ~Has(body, "status") \/ body.status \notin Values(TaskStatus)
    THEN {[resp |-> Response(400, "VALIDATION_ERROR", {}, {}), st |-> st]}
    ELSE LET r(u) == Request("updateTaskStatus", u, id, [status |-> body.status])
             calls(u) == {[userId |-> u, taskId |-> id, status |-> body.status]}
         IN  UNION {{[resp |-> CASE x.out = OK ->
                                      Response(200, "", returned(x.st.accounts, r(u), x),
                                               calls(u))
                                 [] x.out = NotFoundOrDenied ->
                                      Response(404, "NOT_FOUND", {}, calls(u))
                                 [] OTHER ->
                                      Response(500, "INTERNAL_ERROR", {}, calls(u)),
                      st |-> x.st] : x \in Run(st, r(u))} : u \in user}

\* A page or limit of the query string: digits with an optional sign, digits
\* followed by a fraction, or other text.
Digits(n) == [kind |-> "digits", n |-> n]

Fraction(n) == [kind |-> "fraction", n |-> n]

Word == [kind |-> "word", n |-> 0]

\* parseInt(req.query[k] as string): the leading integer, NaN ({}) for an
\* absent value and for text that starts with no digit.
parseInt(query, k) ==
    IF Has(query, k) /\ query[k].kind \in {"digits", "fraction"} THEN {query[k].n} ELSE {}

\* parseInt(...) || d
orElse(parsed, d) == IF parsed \in {{}, {0}} THEN d ELSE CHOOSE n \in parsed : TRUE

ControllerLimit == 10

\* The filters that getTasks builds from the query string; a key whose value
\* is undefined is left out.
getTasksFilters(query) ==
    [k \in {j \in DOMAIN query \cap {"status", "priority"} : query[j] # ""}
           \cup (DOMAIN query \cap {"assigneeId", "creatorId", "dueDateFrom", "dueDateTo",
                                    "search"})
           \cup {"page", "limit", "sortBy", "sortOrder"} |->
        CASE k = "page" -> orElse(parseInt(query, "page"), 1)
          [] k = "limit" -> orElse(parseInt(query, "limit"), ControllerLimit)
          [] k = "sortBy" ->
                IF Has(query, "sortBy") /\ query.sortBy # "" THEN query.sortBy ELSE "updatedAt"
          [] k = "sortOrder" ->
                IF Has(query, "sortOrder") /\ query.sortOrder # "" THEN query.sortOrder
                ELSE "desc"
          [] OTHER -> query[k]]

\* The controller of GET /api/tasks.
getTasksController(st, user, query) ==
    IF user = {}
    THEN {Response(401, "UNAUTHORIZED", {}, {})}
    ELSE LET filters == getTasksFilters(query)
             r(u) == Request("getUserTasks", u, 0, filters)
             calls(u) == {[userId |-> u, filters |-> filters]}
         IN  UNION {{CASE x.out = OK ->
                            Response(200, "", {returned(x.st.accounts, r(u), x)}, calls(u))
                       [] x.out = ValidationError ->
                            Response(400, "VALIDATION_ERROR", {}, calls(u))
                       [] OTHER ->
                            Response(500, "INTERNAL_ERROR", {}, calls(u)) :
                       x \in Run(st, r(u))} :
                     u \in user}

\* Variant of searchTasksController that does not trim q.
searchTasksControllerUntrimmed(st, user, query) ==
    IF user = {}
    THEN {Response(401, "UNAUTHORIZED", {}, {})}
    ELSE IF ~Has(query, "q") \/ query.q.kind # "string" \/ query.q.text = << >>
    THEN {Response(400, "VALIDATION_ERROR", {}, {})}
    ELSE IF Len(query.q.text) < 2
    THEN {Response(400, "VALIDATION_ERROR", {}, {})}
    ELSE UNION {{Response(200, "", {[tasks |-> [i \in DOMAIN x.res |-> x.res[i]],
                                      query |-> query.q.text,
                                      count |-> Len(x.res)]},
                          {[userId |-> u, searchQuery |-> query.q.text]}) :
                   x \in Run(st, Request("searchTasks", u, 0, [q |-> query.q.text]))} :
                 u \in user}

searchTasksController(st, user, query) ==
    IF user = {}
    THEN {Response(401, "UNAUTHORIZED", {}, {})}
    ELSE IF ~Has(query, "q") \/ query.q.kind # "string" \/ query.q.text = << >>
    THEN {Response(400, "VALIDATION_ERROR", {}, {})}
    ELSE LET searchQuery == trim(query.q.text)
             r(u) == Request("searchTasks", u, 0, [q |-> searchQuery])
             calls(u) == {[userId |-> u, searchQuery |-> searchQuery]}
         IN  IF Len(searchQuery) < QueryMin
             THEN {Response(400, "VALIDATION_ERROR", {}, {})}
             ELSE UNION {{IF x.out = OK
                          THEN Response(200, "",
                                        {[tasks |-> returned(x.st.accounts, r(u), x),
                                          query |-> searchQuery,
                                          count |-> Len(x.res)]},
                                        calls(u))
                          ELSE Response(500, "INTERNAL_ERROR", {}, calls(u)) :
                            x \in Run(st, r(u))} :
                          u \in user}

\* The controllers of the other routes: the response and the store they
\* leave.
createTaskController(st, user, body) ==
    IF user = {}
    THEN {[resp |-> Response(401, "UNAUTHORIZED", {}, {}), st |-> st]}
    ELSE UNION {LET r == Request("createTask", u, 0, body)
                    calls == {[userId |-> u, taskData |-> body]}
                IN  {[resp |-> CASE x.out = OK ->
                                      Response(201, "", returned(x.st.accounts, r, x), calls)
                                 [] x.out \in {ValidationError, AssigneeMissing} ->
                                      Response(400, "VALIDATION_ERROR", {}, calls)
                                 [] OTHER ->
                                      Response(500, "INTERNAL_ERROR", {}, calls),
                      st |-> x.st] : x \in Run(st, r)} :
                u \in user}

getTaskByIdController(st, user, id) ==
    IF user = {}
    THEN {[resp |-> Response(401, "UNAUTHORIZED", {}, {}), st |-> st]}
    ELSE UNION {LET r == Request("getTaskById", u, id, << >>)
                    calls == {[userId |-> u, taskId |-> id]}
                IN  {[resp |-> CASE x.out # OK -> Response(500, "INTERNAL_ERROR", {}, calls)
                                 [] x.out = OK /\ x.res = {} ->
                                      Response(404, "NOT_FOUND", {}, calls)
                                 [] OTHER ->
                                      Response(200, "", returned(x.st.accounts, r, x), calls),
                      st |-> x.st] : x \in Run(st, r)} :
                u \in user}

updateTaskController(st, user, id, body) ==
    IF user = {}
    THEN {[resp |-> Response(401, "UNAUTHORIZED", {}, {}), st |-> st]}
    ELSE UNION {LET r == Request("updateTask", u, id, body)
                    calls == {[userId |-> u, taskId |-> id, updateData |-> body]}
                IN  {[resp |-> CASE x.out = OK ->
                                      Response(200, "", returned(x.st.accounts, r, x), calls)
                                 [] x.out \in {ValidationError, AssigneeMissing} ->
                                      Response(400, "VALIDATION_ERROR", {}, calls)
                                 [] x.out = NotFoundOrDenied ->
                                      Response(404, "NOT_FOUND", {}, calls)
                                 [] OTHER ->
                                      Response(500, "INTERNAL_ERROR", {}, calls),
                      st |-> x.st] : x \in Run(st, r)} :
                u \in user}

deleteTaskController(st, user, id) ==
    IF user = {}
    THEN {[resp |-> Response(401, "UNAUTHORIZED", {}, {}), st |-> st]}
    ELSE UNION {LET r == Request("deleteTask", u, id, << >>)
                    calls == {[userId |-> u, taskId |-> id]}
                IN  {[resp |-> CASE x.out = OK -> Response(204, "", {}, calls)
                                 [] x.out = NotFoundOrDenied ->
                                      Response(404, "NOT_FOUND", {}, calls)
                                 [] OTHER ->
                                      Response(500, "INTERNAL_ERROR", {}, calls),
                      st |-> x.st] : x \in Run(st, r)} :
                u \in user}

getUsersController(st, user) ==
    IF user = {}
    THEN {[resp |-> Response(401, "UNAUTHORIZED", {}, {}), st |-> st]}
    ELSE {[resp |-> IF x.out = OK
                    THEN Response(200, "", {x.res}, {[users |-> "all"]})
                    ELSE Response(500, "INTERNAL_ERROR", {}, {[users |-> "all"]}),
           st |-> x.st] : x \in Run(st, Request("getAllUsers", "", 0, << >>))}

getUserByIdController(st, user, id) ==
    IF user = {}
    THEN {[resp |-> Response(401, "UNAUTHORIZED", {}, {}), st |-> st]}
    ELSE {[resp |-> CASE x.out # OK -> Response(500, "INTERNAL_ERROR", {}, {[users |-> id]})
                      [] x.out = OK /\ x.res = {} ->
                            Response(404, "NOT_FOUND", {}, {[users |-> id]})
                      [] OTHER -> Response(200, "", x.res, {[users |-> id]}),
           st |-> x.st] : x \in Run(st, Request("getUserById", "", 0, [id |-> id]))}

(***************************************************************************)
(* The middleware authenticateToken and the two routers that use it.  An   *)
(* authorization header is its scheme and the parts that follow it after   *)
(* a blank; a token is what jwt.verify makes of it and the id it carries;  *)
(* env.JWT_SECRET is the secret or nothing.                                *)
(***************************************************************************)
Token(kind, id) == [kind |-> kind, id |-> id]

Bearer(rest) == [authorization |-> [scheme |-> "Bearer", rest |-> rest]]

\* authHeader && authHeader.split(' ')[1], when truthy.
bearerToken(headers) ==
    IF Has(headers, "authorization") /\ Len(headers.authorization.rest) >= 1
       /\ headers.authorization.rest[1].kind # "empty"
    THEN {headers.authorization.rest[1]}
    ELSE {}

\* jwt.verify(token, jwtSecret): the payload, or nothing when it throws.
jwtVerify(token) == IF token.kind = "valid" THEN {token.id} ELSE {}

\* Variant of authenticateToken that reads the payload of any token.
authenticateTokenUnverified(headers, env) ==
    IF "authorization" \notin DOMAIN headers \/ Len(headers.authorization.rest) = 0
    THEN [next |-> FALSE, user |-> {},
          resp |-> [status |-> 401, code |-> "UNAUTHORIZED", data |-> {}, calls |-> {}]]
    ELSE [next |-> TRUE, user |-> {headers.authorization.rest[1].id},
          resp |-> [status |-> 200, code |-> "", data |-> {}, calls |-> {}]]

authenticateToken(headers, env) ==
    IF bearerToken(headers) = {}
    THEN [next |-> FALSE, user |-> {}, resp |-> Response(401, "UNAUTHORIZED", {}, {})]
    ELSE IF env.JWT_SECRET = {}
    THEN [next |-> FALSE, user |-> {}, resp |-> Response(500, "INTERNAL_ERROR", {}, {})]
    ELSE IF \E t \in bearerToken(headers) : jwtVerify(t) = {}
    THEN [next |-> FALSE, user |-> {}, resp |-> Response(403, "FORBIDDEN", {}, {})]
    ELSE [next |-> TRUE, user |-> UNION {jwtVerify(t) : t \in bearerToken(headers)},
          resp |-> Response(200, "", {}, {})]

TaskRoutes ==
    {"POST /api/tasks", "GET /api/tasks", "GET /api/tasks/search", "GET /api/tasks/:id",
     "PUT /api/tasks/:id", "DELETE /api/tasks/:id", "PATCH /api/tasks/:id/status"}

UserRoutes == {"GET /api/users", "GET /api/users/:id"}

\* The handler of a route, run with req.user.
handler(st, user, req) ==
    CASE req.route = "POST /api/tasks" -> createTaskController(st, user, req.body)
      [] req.route = "GET /api/tasks" ->
            {[resp |-> p, st |-> st] : p \in getTasksController(st, user, req.query)}
      [] req.route = "GET /api/tasks/search" ->
            {[resp |-> p, st |-> st] : p \in searchTasksController(st, user, req.query)}
      [] req.route = "GET /api/tasks/:id" -> getTaskByIdController(st, user, req.id)
      [] req.route = "PUT /api/tasks/:id" -> updateTaskController(st, user, req.id, req.body)
      [] req.route = "DELETE /api/tasks/:id" -> deleteTaskController(st, user, req.id)
      [] req.route = "PATCH /api/tasks/:id/status" ->
            updateTaskStatusController(st, user, req.id, req.body)
      [] req.route = "GET /api/users" -> getUsersController(st, user)
      [] req.route = "GET /api/users/:id" -> getUserByIdController(st, user, req.userId)

\* A router whose first layer is router.use(authenticateToken).
router(st, env, req) ==
    LET a == authenticateToken(req.headers, env)
    IN  IF a.next THEN handler(st, a.user, req) ELSE {[resp |-> a.resp, st |-> st]}

(***************************************************************************)
(* Inputs.                                                                 *)
(***************************************************************************)
\* The users that create tasks.
Creators == {"u1", "u2"}

\* An id that never names a user.
NoSuchUser == "u0"

TaskIds == 1..MaxTasks

\* The row of a registered user.
Account(u) ==
    [id |-> u,
     email |-> CASE u = "u1" -> <<"a", "@", "x">>
                 [] u = "u2" -> <<"b", "@", "x">>
                 [] OTHER -> <<"a", "b", "@", "x">>,
     name |-> IF u = "u2" THEN <<"c", "d">> ELSE <<"A", "b">>,
     passwordHash |-> "h1"]

T1 == <<"A", "b">>

T2 == <<"c", "d">>

D1 == <<"x", "a", "B">>

Blank == <<" ">>

WithAssignee(S, ids) == S \cup {d @@ [assigneeId |-> a] : d \in S, a \in ids}

CreateInputs ==
    WithAssignee({[title |-> T1],
                  [title |-> T2, description |-> D1, status |-> "IN_PROGRESS",
                   priority |-> "HIGH", dueDate |-> 3]},
                 UserIds \cup {NoSuchUser})
    \cup {[title |-> Blank], [title |-> T1, dueDate |-> 1]}

PatchInputs ==
    {<< >>, [status |-> "IN_PROGRESS"], [title |-> Blank], [assigneeId |-> {}]}
    \cup {[assigneeId |-> {a}] : a \in UserIds \cup {NoSuchUser}}

StatusInputs == {"IN_PROGRESS"}

FilterInputs ==
    {<< >>, [creatorId |-> "u2"], [search |-> <<"x", "A">>],
     [status |-> "PENDING", search |-> <<"A">>]}

SearchInputs == {<<"x", "A">>, Blank}

(***************************************************************************)
(* State machine.  last is the operation that returned last: its name, the *)
(* acting user, the task id it was given, its outcome, the rows of its     *)
(* result (res) and the value handed to the caller (ret).                  *)
(* pend is the set of requests that have made a store call and not yet     *)
(* the next one.                                                           *)
(***************************************************************************)
NoCall == [op |-> "none", actor |-> "", id |-> 0, out |-> OK, res |-> {}, ret |-> {}]

Init ==
    /\ users = UserIds
    /\ accounts = {Account(u) : u \in UserIds}
    /\ tasks = {}
    /\ nextId = 1
    /\ recent = << >>
    /\ last = NoCall
    /\ pend = {}

Returned(r, x) ==
    [op |-> r.op, actor |-> r.actor, id |-> r.id, out |-> x.out, res |-> x.res,
     ret |-> returned(x.st.accounts, r, x)]

Write(st) ==
    /\ users' = st.users
    /\ accounts' = st.accounts
    /\ tasks' = st.tasks
    /\ nextId' = st.nextId
    /\ recent' = st.recent

\* The whole operation, with no other request in between.
Call(r) ==
    \E x \in Run(Store, r) :
        /\ Write(x.st)
        /\ last' = Returned(r, x)
        /\ UNCHANGED pend

CreateTask(creatorId, taskData) ==
    /\ nextId <= MaxTasks
    /\ Call(Request("createTask", creatorId, 0, taskData))

GetTaskById(taskId, userId) == Call(Request("getTaskById", userId, taskId, << >>))

GetUserTasks(userId, filters) == Call(Request("getUserTasks", userId, 0, filters))

SearchTasks(userId, searchQuery) ==
    Call(Request("searchTasks", userId, 0, [q |-> searchQuery]))

UpdateTask(taskId, userId, updateData) ==
    Call(Request("updateTask", userId, taskId, updateData))

DeleteTask(taskId, userId) == Call(Request("deleteTask", userId, taskId, << >>))

UpdateTaskStatus(taskId, userId, status) ==
    Call(Request("updateTaskStatus", userId, taskId, [status |-> status]))

DeleteUser(id) == Call(Request("deleteUser", "", 0, [id |-> id]))

Next ==
    \/ \E c \in Creators, d \in CreateInputs : CreateTask(c, d)
    \/ \E t \in TaskIds, u \in UserIds : GetTaskById(t, u)
    \/ \E u \in UserIds, f \in FilterInputs : GetUserTasks(u, f)
    \/ \E u \in UserIds, q \in SearchInputs : SearchTasks(u, q)
    \/ \E t \in TaskIds, u \in UserIds, p \in PatchInputs : UpdateTask(t, u, p)
    \/ \E t \in TaskIds, u \in UserIds : DeleteTask(t, u)
    \/ \E t \in TaskIds, u \in UserIds, s \in StatusInputs : UpdateTaskStatus(t, u, s)

Spec == Init /\ [][Next]_vars

(***************************************************************************)
(* Concurrent requests: a request makes one store call at a time, and the  *)
(* calls of different requests interleave.                                 *)
(***************************************************************************)
Advance(r, x) ==
    /\ Write(x.st)
    /\ IF x.pc = "done"
       THEN /\ last' = Returned(r, x)
            /\ pend' = pend \ {r}
       ELSE /\ last' = last
            /\ pend' = (pend \ {r}) \cup {[r EXCEPT !.pc = x.pc]}

\* The code of a new request up to and including its first store call.
Begin(r) ==
    \E x \in Step(Store, r) :
        /\ x.pc # "done" => Cardinality(pend) < MaxInflight
        /\ Advance(r, x)

\* The code of a request in flight from one store call to the next.
Resume(r) == \E x \in Step(Store, r) : Advance(r, x)

Creating == {r \in pend : r.op = "createTask"}

BeginCreateTask(creatorId, taskData) ==
    /\ nextId + Cardinality(Creating) <= MaxRaceTasks
    /\ Begin(Request("createTask", creatorId, 0, taskData))

BeginUpdateTask(taskId, userId, updateData) ==
    Begin(Request("updateTask", userId, taskId, updateData))

BeginDeleteTask(taskId, userId) == Begin(Request("deleteTask", userId, taskId, << >>))

BeginUpdateTaskStatus(taskId, userId, status) ==
    Begin(Request("updateTaskStatus", userId, taskId, [status |-> status]))

RaceCreateInputs == {[title |-> T1], [title |-> T1, assigneeId |-> "u2"]}

RacePatchInputs == {[assigneeId |-> {}], [assigneeId |-> {"u3"}]}

RaceTaskIds == 1..MaxRaceTasks

NextRace ==
    \/ \E c \in Creators, d \in RaceCreateInputs : BeginCreateTask(c, d)
    \/ \E t \in RaceTaskIds, u \in UserIds, p \in RacePatchInputs : BeginUpdateTask(t, u, p)
    \/ \E t \in RaceTaskIds, u \in UserIds : BeginDeleteTask(t, u)
    \/ \E t \in RaceTaskIds, u \in UserIds, s \in StatusInputs : BeginUpdateTaskStatus(t, u, s)
    \/ \E u \in UserIds : DeleteUser(u)
    \/ \E r \in pend : Resume(r)

SpecRace == Init /\ [][NextRace]_vars

(***************************************************************************)
(* A store that already holds many tasks: user u1 has created n tasks one  *)
(* after the other, assigning every second one to u2, and nothing else     *)
(* has happened since.  From there tasks are touched, listed and searched. *)
(***************************************************************************)
BulkSizes == {0, 25, SearchTake, SearchTake + 1, MaxBulk}

BulkData(i) == IF i % 2 = 0 THEN [title |-> T1, assigneeId |-> "u2"] ELSE [title |-> T1]

\* The row that the i-th createTask of u1 stored.
BulkTask(i) == taskCreateData([nextId |-> i], "u1", taskCreationValue(BulkData(i)))

InitBulk ==
    \E n \in BulkSizes :
        /\ users = UserIds
        /\ accounts = {Account(u) : u \in UserIds}
        /\ tasks = {BulkTask(i) : i \in 1..n}
        /\ nextId = n + 1
        /\ recent = [i \in 1..n |-> n + 1 - i]
        /\ last = NoCall
        /\ pend = {}

BulkTouched == {1, 2}

BulkQueries == {T1, Blank}

BulkFilters == {<< >>, [page |-> 2, limit |-> 10], [search |-> <<"a", "B">>, limit |-> 100]}

NextBulk ==
    \/ \E t \in BulkTouched, s \in StatusInputs : UpdateTaskStatus(t, "u1", s)
    \/ \E u \in Creators, q \in BulkQueries : SearchTasks(u, q)
    \/ \E u \in Creators, f \in BulkFilters : GetUserTasks(u, f)

SpecBulk == InitBulk /\ [][NextBulk]_vars

(***************************************************************************)
(* Tasks that are assigned, reassigned and unassigned and whose status is  *)
(* set to every value, each operation running alone.                       *)
(***************************************************************************)
AssignPatchInputs == RacePatchInputs \cup {[assigneeId |-> {"u2"}], [title |-> Blank]}

StatusBodies == {<< >>, [status |-> "DONE"], [status |-> "COMPLETED"]}

\* router.patch('/:id/status', updateTaskStatus) for an authenticated user.
StatusRoute(userId, id, body) ==
    \E y \in updateTaskStatusController(Store, {userId}, id, body) :
        /\ Write(y.st)
        /\ last' = [op |-> "PATCH /api/tasks/:id/status", actor |-> userId, id |-> id,
                    out |-> IF y.resp.status = 200 THEN OK ELSE y.resp.code,
                    res |-> {}, ret |-> y.resp]
        /\ UNCHANGED pend

NextAssign ==
    \/ \E c \in Creators, d \in RaceCreateInputs : CreateTask(c, d)
    \/ \E t \in TaskIds, u \in UserIds, p \in AssignPatchInputs : UpdateTask(t, u, p)
    \/ \E t \in TaskIds, u \in UserIds, v \in Values(TaskStatus) : UpdateTaskStatus(t, u, v)
    \/ \E t \in TaskIds, u \in UserIds : GetTaskById(t, u)
    \/ \E t \in TaskIds, u \in Creators : DeleteTask(t, u)
    \/ \E t \in TaskIds, u \in Creators, b \in StatusBodies : StatusRoute(u, t, b)

SpecAssign == Init /\ [][NextAssign]_vars

(***************************************************************************)
(* The HTTP interface: every request goes through a router.                *)
(***************************************************************************)
ApiRequest(route, headers) ==
    [route |-> route, headers |-> headers, id |-> 1, userId |-> "u2",
     body |-> CASE route = "POST /api/tasks" -> [title |-> T1, assigneeId |-> "u2"]
                [] route = "PUT /api/tasks/:id" -> [title |-> T2]
                [] route = "PATCH /api/tasks/:id/status" -> [status |-> "IN_PROGRESS"]
                [] OTHER -> << >>,
     query |-> IF route = "GET /api/tasks/search" THEN [q |-> Text(T1)] ELSE << >>]

ApiHeaders ==
    {<< >>, Bearer(<< >>), Bearer(<<Token("empty", "")>>), Bearer(<<Token("expired", "u1")>>),
     Bearer(<<Token("forged", "u2")>>), Bearer(<<Token("valid", "u1")>>),
     Bearer(<<Token("valid", "u2")>>)}

Environments == {[JWT_SECRET |-> {}], [JWT_SECRET |-> {"secret"}]}

\* A request to /api/tasks or /api/users.
ApiRoute(env, req) ==
    /\ req.route = "POST /api/tasks" => nextId <= MaxTasks
    /\ \E y \in router(Store, env, req) :
            /\ Write(y.st)
            /\ last' = [op |-> req.route, actor |-> "", id |-> req.id,
                        out |-> IF y.resp.code = "" THEN OK ELSE y.resp.code,
                        res |-> {}, ret |-> y.resp]
            /\ UNCHANGED pend

NextApi ==
    \E e \in Environments, rt \in TaskRoutes \cup UserRoutes, h \in ApiHeaders :
        ApiRoute(e, ApiRequest(rt, h))

SpecApi == Init /\ [][NextApi]_vars

(***************************************************************************)
(* The user service on a database that starts without users, together     *)
(* with the creation and listing of tasks.                                 *)
(***************************************************************************)
E1 == <<"a", "@", "x">>

E1Upper == <<"A", "@", "x">>

E2Mixed == <<"B", "@", "x">>

NotAnEmail == <<"a", "b">>

Pw == <<"p", "a", "s", "s", "w", "o", "r", "d">>

RegistrationInputs ==
    {[email |-> E1Upper, name |-> T2, password |-> Pw],
     [email |-> E2Mixed, name |-> T1, password |-> Pw],
     [email |-> NotAnEmail, name |-> T1, password |-> Pw]}

UserPatchInputs == {<< >>, [email |-> E1Upper], [email |-> E2Mixed], [name |-> T2]}

LoginInputs == {[email |-> E1Upper, password |-> Pw], [email |-> E2Mixed, password |-> Pw]}

InitUsers ==
    /\ users = {}
    /\ accounts = {}
    /\ tasks = {}
    /\ nextId = 1
    /\ recent = << >>
    /\ last = NoCall
    /\ pend = {}

CreateUser(userData) ==
    /\ Cardinality(users) < MaxUsers
    /\ Call(Request("createUser", "", 0, userData))

AuthenticateUser(loginData) == Call(Request("authenticateUser", "", 0, loginData))

GetUserById(id) == Call(Request("getUserById", "", 0, [id |-> id]))

GetUserByEmail(email) == Call(Request("getUserByEmail", "", 0, [email |-> email]))

UpdateUser(id, updateData) ==
    Call(Request("updateUser", "", 0, [id |-> id, patch |-> updateData]))

GetAllUsers == Call(Request("getAllUsers", "", 0, << >>))

CreateFirstTask(creatorId, taskData) ==
    /\ nextId <= MaxRaceTasks
    /\ CreateTask(creatorId, taskData)

RouteQueries == {<< >>, [q |-> NotText], [q |-> Text(<<" ", "a">>)],
                 [q |-> Text(<<" ", "a", "b">>)]}

\* router.get('/search', searchTasks) for an authenticated user.
SearchRoute(userId, query) ==
    \E resp \in searchTasksController(Store, {userId}, query) :
        /\ last' = [op |-> "GET /api/tasks/search", actor |-> userId, id |-> 0,
                    out |-> IF resp.status = 200 THEN OK ELSE resp.code,
                    res |-> {}, ret |-> resp]
        /\ UNCHANGED <<users, accounts, tasks, nextId, recent, pend>>

ListQueries ==
    {<< >>, [page |-> Digits(0)], [limit |-> Digits(0)], [page |-> Digits(2), limit |-> Word],
     [status |-> "DONE"], [sortBy |-> "title", sortOrder |-> "asc"]}

\* router.get('/', getTasks) for an authenticated user.
ListRoute(userId, query) ==
    \E resp \in getTasksController(Store, {userId}, query) :
        /\ last' = [op |-> "GET /api/tasks", actor |-> userId, id |-> 0,
                    out |-> IF resp.status = 200 THEN OK ELSE resp.code,
                    res |-> {}, ret |-> resp]
        /\ UNCHANGED <<users, accounts, tasks, nextId, recent, pend>>

NextUsers ==
    \/ \E d \in RegistrationInputs : CreateUser(d)
    \/ \E d \in LoginInputs : AuthenticateUser(d)
    \/ \E u \in Creators : GetUserById(u)
    \/ \E e \in {E1Upper, E2Mixed} : GetUserByEmail(e)
    \/ \E u \in Creators, d \in UserPatchInputs : UpdateUser(u, d)
    \/ GetAllUsers
    \/ \E u \in Creators : DeleteUser(u)
    \/ \E c \in Creators, d \in RaceCreateInputs : CreateFirstTask(c, d)
    \/ \E u \in Creators : GetUserTasks(u, << >>)
    \/ \E u \in Creators, q \in RouteQueries : SearchRoute(u, q)
    \/ \E u \in Creators, q \in ListQueries : ListRoute(u, q)

SpecUsers == InitUsers /\ [][NextUsers]_vars

(***************************************************************************)
(* Inputs on which the properties below try the operations in every        *)
(* reachable state.                                                        *)
(***************************************************************************)
Actors == UserIds \cup {NoSuchUser}

\* Task ids, among them one that is never handed out.
ProbeIds == TaskIds \cup {0}

Join(S, T) == S \cup T \cup {f @@ g : f \in S, g \in T}

WhoFilters ==
    {[creatorId |-> u] : u \in UserIds} \cup {[assigneeId |-> u] : u \in UserIds}

WhatFilters ==
    {[status |-> "IN_PROGRESS"], [priority |-> "HIGH"],
     [dueDateFrom |-> 1, dueDateTo |-> 3], [dueDateTo |-> 2],
     [search |-> <<"a", "B">>], [search |-> <<" ", "x", "A", " ">>],
     [sortBy |-> "title", sortOrder |-> "asc", page |-> 2, limit |-> 1]}

ProbeFilters ==
    {<< >>, [search |-> <<"a">>], [status |-> "DONE"], [limit |-> 0]}
    \cup Join(WhoFilters, WhatFilters)
    \cup {[creatorId |-> "u2", assigneeId |-> "u1", search |-> <<"A", "B">>]}

ProbeQueries ==
    {<<"a", "B">>, <<"A", "B">>, <<"x", "A">>, T2, <<"b">>, <<" ", "c">>, <<"B", "x">>}

\* creatorId = A or assigneeId = A, written out.
Participant(t, A) == t.creatorId = A \/ t.assigneeId = {A}

Upper(c) ==
    CASE c = "a" -> "A"
      [] c = "b" -> "B"
      [] OTHER -> c

\* text holds q at some position, letter case apart.
Occurs(text, q) ==
    \E k \in 0..(Len(text) - Len(q)) :
        \A i \in 1..Len(q) : Upper(text[k + i]) = Upper(q[i])

Rows(s) == {s[i] : i \in 1..Len(s)}

(***************************************************************************)
(* C1: for every actor A and every valid combination of list filters,      *)
(* every task that getUserTasks(A, filters) returns has creatorId = A or   *)
(* assigneeId = A, also when the filters name another user as creator or   *)
(* assignee and when a search clause is present.                           *)
(***************************************************************************)
C1_ListReturnsOnlyParticipantTasks ==
    /\ (last.op = "getUserTasks" /\ last.out = OK) =>
          \A t \in Rows(last.res.tasks) : Participant(t, last.actor)
    /\ \A A \in UserIds, f \in ProbeFilters :
          ~taskFilterError(f) =>
             \A x \in getUserTasks(Store, A, f) :
                \A t \in Rows(x.tasks) : Participant(t, A)

\* A list filtered by another user's creatorId returned rows while a task of
\* that creator which the actor takes no part in is stored.
C1_Witness ==
    /\ last.op = "getUserTasks"
    /\ last.out = OK
    /\ last.actor # "u2"
    /\ last.res.tasks # << >>
    /\ last.res \in getUserTasks(Store, last.actor, [creatorId |-> "u2"])
    /\ \E t \in tasks : t.creatorId = "u2" /\ ~Participant(t, last.actor)

(***************************************************************************)
(* C2: getTaskById(taskId, A) returns the task if and only if a task with  *)
(* that id exists and A is its creator or its current assignee, and null   *)
(* in every other case; it changes nothing.                                *)
(***************************************************************************)
C2_GetTaskByIdIffParticipant ==
    /\ last.op = "getTaskById" =>
          /\ last.out = OK
          /\ last.res = {t \in tasks : t.id = last.id /\ Participant(t, last.actor)}
    /\ \A A \in Actors, id \in ProbeIds :
          \A x \in Run(Store, Request("getTaskById", A, id, << >>)) :
             /\ x.out = OK
             /\ x.res = {t \in tasks : t.id = id /\ Participant(t, A)}
             /\ x.st = Store

\* A third user read a task that has an assignee and got null.
C2_Witness ==
    /\ last.op = "getTaskById"
    /\ last.res = {}
    /\ \E t \in tasks :
          /\ t.id = last.id
          /\ t.assigneeId # {}
          /\ ~Participant(t, last.actor)

(***************************************************************************)
(* C3: for every actor A and every query q that is not empty after         *)
(* trimming, every task searchTasks(A, q) returns has creatorId = A or     *)
(* assigneeId = A and holds q, letter case apart, in its title or its      *)
(* description.                                                            *)
(***************************************************************************)
C3_SearchReturnsOnlyVisibleMatches ==
    /\ last.op = "searchTasks" =>
          \A t \in Rows(last.res) : Participant(t, last.actor)
    /\ \A A \in UserIds, q \in ProbeQueries :
          trim(q) # << >> =>
             \A x \in searchTasks(Store, A, q) :
                \A t \in Rows(x) :
                   /\ Participant(t, A)
                   /\ Occurs(t.title, q) \/ \E d \in t.description : Occurs(d, q)

\* A search returned a row while a matching task the actor takes no part in
\* and a task of the actor that does not match are stored.
C3_Witness ==
    /\ last.op = "searchTasks"
    /\ last.res # << >>
    /\ last.res \in searchTasks(Store, last.actor, <<"x", "A">>)
    /\ \E t \in tasks : ~Participant(t, last.actor) /\ \E d \in t.description : Occurs(d, <<"x", "A">>)

SinglePatches ==
    {[title |-> T2], [title |-> <<" ", "A", "b", " ">>], [description |-> D1],
     [description |-> << >>], [status |-> "COMPLETED"], [priority |-> "LOW"],
     [dueDate |-> {}], [dueDate |-> {1}], [assigneeId |-> {}]}
    \cup {[assigneeId |-> {a}] : a \in Actors}

ProbePatches ==
    {<< >>, [title |-> Blank], [status |-> "DONE"], [creatorId |-> "u3"]}
    \cup Join({[assigneeId |-> {}], [dueDate |-> {}], [status |-> "PENDING"]}, SinglePatches)

NoRow(id) == \A t \in tasks : t.id # id

(***************************************************************************)
(* C4: deleteTask(taskId, A) removes the task if and only if A is its      *)
(* creator; when A is only the assignee or takes no part in the task, or   *)
(* the task does not exist, it fails with 'Task not found or access        *)
(* denied' and the store stays as it was.  A task that was deleted is      *)
(* returned by no later get, list or search of any user.                   *)
(***************************************************************************)
C4_Gone(id) ==
    /\ NoRow(id)
    /\ \A A \in UserIds :
          /\ getTaskById(Store, id, A) = {}
          /\ \A f \in ProbeFilters :
                ~taskFilterError(f) =>
                   \A x \in getUserTasks(Store, A, f) : \A t \in Rows(x.tasks) : t.id # id
          /\ \A q \in ProbeQueries :
                \A x \in searchTasks(Store, A, q) : \A t \in Rows(x) : t.id # id

C4_DeleteOutcome ==
    /\ \A A \in Actors, id \in ProbeIds :
          \A x \in Run(Store, Request("deleteTask", A, id, << >>)) :
             IF \E t \in tasks : t.id = id /\ t.creatorId = A
             THEN /\ x.out = OK
                  /\ x.st.tasks = {t \in tasks : t.id # id}
                  /\ x.st.users = users
             ELSE /\ x.out = NotFoundOrDenied
                  /\ x.st = Store
    /\ (last.op = "deleteTask" /\ last.out = OK) => C4_Gone(last.id)
    /\ (last.op = "deleteTask" /\ last.out # OK) => last.out = NotFoundOrDenied

C4_DeleteOnlyByCreator ==
    /\ []C4_DeleteOutcome
    /\ [][\A id \in TaskIds : (id < nextId /\ NoRow(id)) => NoRow(id)']_vars

\* The assignee of a task called deleteTask on it, was refused, and the task
\* is still stored.
C4_Witness ==
    /\ last.op = "deleteTask"
    /\ last.out = NotFoundOrDenied
    /\ \E t \in tasks : t.id = last.id /\ t.assigneeId = {last.actor} /\ t.creatorId # last.actor

(***************************************************************************)
(* C5: with each operation executed atomically, a call of updateTask or    *)
(* updateTaskStatus by a user who is neither the creator nor the current   *)
(* assignee of the task fails and leaves every task unchanged.             *)
(***************************************************************************)
C5_UpdateOnlyByParticipant ==
    \A A \in Actors, id \in ProbeIds :
       (~\E t \in tasks : t.id = id /\ Participant(t, A)) =>
          /\ \A p \in ProbePatches :
                \A x \in Run(Store, Request("updateTask", A, id, p)) :
                   x.out # OK /\ x.st = Store
          /\ \A s \in Values(TaskStatus) :
                \A x \in Run(Store, Request("updateTaskStatus", A, id, [status |-> s])) :
                   x.out # OK /\ x.st = Store

\* A user who takes no part in a stored task called updateTaskStatus on it
\* and was refused.
C5_Witness ==
    /\ last.op = "updateTaskStatus"
    /\ last.out # OK
    /\ \E t \in tasks : t.id = last.id /\ ~Participant(t, last.actor) /\ t.status = "PENDING"

(***************************************************************************)
(* C6: updateTaskStatus on a task that does not exist or that the actor    *)
(* takes no part in fails with 'Task not found or access denied', and      *)
(* PATCH /api/tasks/:id/status answers 404.                                *)
(***************************************************************************)
C6_StatusUpdateOfHiddenTaskIsNotFound ==
    (/\ last.op = "updateTaskStatus"
     /\ ~\E t \in tasks : t.id = last.id /\ Participant(t, last.actor))
    => /\ last.out = NotFoundOrDenied
       /\ updateTaskStatusResponse(last.out) = 404

(***************************************************************************)
(* C7: for every actor and every patch, updateTask on an id that matches   *)
(* no task and updateTask on the id of a task the actor takes no part in   *)
(* have the same outcome and change nothing; so have getTaskById and       *)
(* updateTaskStatus, and deleteTask on a task the actor did not create.    *)
(***************************************************************************)
Outcomes(r) == {[out |-> x.out, res |-> x.res] : x \in Run(Store, r)}

Unchanged(r) == \A x \in Run(Store, r) : x.st = Store

C7_Alike(op, A, missing, hidden, data) ==
    /\ Outcomes(Request(op, A, missing, data)) = Outcomes(Request(op, A, hidden, data))
    /\ Unchanged(Request(op, A, missing, data))
    /\ Unchanged(Request(op, A, hidden, data))

C7_MissingAndHiddenAlike ==
    \A A \in UserIds, missing \in ProbeIds, hidden \in TaskIds :
       NoRow(missing) =>
          /\ (\E t \in tasks : t.id = hidden /\ ~Participant(t, A)) =>
                /\ \A p \in ProbePatches : C7_Alike("updateTask", A, missing, hidden, p)
                /\ \A s \in Values(TaskStatus) :
                      C7_Alike("updateTaskStatus", A, missing, hidden, [status |-> s])
                /\ C7_Alike("getTaskById", A, missing, hidden, << >>)
          /\ (\E t \in tasks : t.id = hidden /\ t.creatorId # A) =>
                C7_Alike("deleteTask", A, missing, hidden, << >>)

\* updateTask was refused on a task the actor takes no part in, while another
\* id names no task.
C7_Witness ==
    /\ last.op = "updateTask"
    /\ last.out = NotFoundOrDenied
    /\ \E t \in tasks : t.id = last.id /\ ~Participant(t, last.actor)
    /\ \E id \in TaskIds : NoRow(id)

Dangling(a) == a \notin users

TaskOf(st, id) == CHOOSE t \in st.tasks : t.id = id

(***************************************************************************)
(* C8 as stated: whenever createTask or updateTask is given a non-null     *)
(* assigneeId that references no existing user, it fails with 'Assigned    *)
(* user does not exist' and no task is created or modified.  The update    *)
(* part is stated here for the ids of stored tasks only.                   *)
(***************************************************************************)
C8_DanglingAssigneeAlwaysRejected ==
    /\ \A A \in Actors, d \in CreateInputs :
          (Has(d, "assigneeId") /\ Dangling(d.assigneeId)) =>
             \A x \in Run(Store, Request("createTask", A, 0, d)) :
                x.out = AssigneeMissing /\ x.st = Store
    /\ \A A \in UserIds, t \in tasks, p \in ProbePatches :
          (Has(p, "assigneeId") /\ \E a \in p.assigneeId : Dangling(a)) =>
             \A x \in Run(Store, Request("updateTask", A, t.id, p)) :
                x.out = AssigneeMissing /\ x.st = Store

(***************************************************************************)
(* C8, amended: given data that passes validation and, for updateTask, a   *)
(* task that the actor created or is assigned to, a non-null assigneeId    *)
(* that references no existing user makes createTask and updateTask fail   *)
(* with 'Assigned user does not exist' and leaves the store unchanged;     *)
(* when the user exists (and, for createTask, the creator exists) the      *)
(* operation succeeds and the task is stored with that assigneeId.         *)
(***************************************************************************)
C8_DanglingAssigneeRejected ==
    /\ \A A \in Actors, d \in CreateInputs :
          (Has(d, "assigneeId") /\ ~taskCreationError(d)) =>
             \A x \in Run(Store, Request("createTask", A, 0, d)) :
                IF Dangling(d.assigneeId)
                THEN x.out = AssigneeMissing /\ x.st = Store
                ELSE A \in users =>
                        /\ x.out = OK
                        /\ \E t \in x.st.tasks :
                              /\ t.assigneeId = {d.assigneeId}
                              /\ t.creatorId = A
                              /\ t \notin tasks
                              /\ x.st.tasks = tasks \cup {t}
    /\ \A A \in UserIds, t \in tasks, p \in ProbePatches :
          (/\ Participant(t, A)
           /\ ~taskUpdateError(p)
           /\ Has(p, "assigneeId")
           /\ p.assigneeId # {}) =>
             \A x \in Run(Store, Request("updateTask", A, t.id, p)) :
                IF \E a \in p.assigneeId : Dangling(a)
                THEN x.out = AssigneeMissing /\ x.st = Store
                ELSE x.out = OK /\ TaskOf(x.st, t.id).assigneeId = p.assigneeId

\* A participant of a stored task called updateTask on it and was answered
\* 'Assigned user does not exist'.
C8_Witness ==
    /\ last.op = "updateTask"
    /\ last.out = AssigneeMissing
    /\ \E t \in tasks : t.id = last.id /\ Participant(t, last.actor)

(***************************************************************************)
(* C9: a successful updateTask sets every field present in the patch to    *)
(* the patch's (trimmed) value and leaves every absent field, every other  *)
(* task and the users as they were; assigneeId = null and dueDate = null   *)
(* clear the field, an absent assigneeId or dueDate leaves it.             *)
(***************************************************************************)
C9_Expected(t, p) ==
    [id |-> t.id,
     title |-> IF Has(p, "title") THEN trim(p.title) ELSE t.title,
     description |-> IF Has(p, "description") THEN {trim(p.description)} ELSE t.description,
     status |-> IF Has(p, "status") THEN p.status ELSE t.status,
     priority |-> IF Has(p, "priority") THEN p.priority ELSE t.priority,
     dueDate |-> IF Has(p, "dueDate") THEN p.dueDate ELSE t.dueDate,
     creatorId |-> t.creatorId,
     assigneeId |-> IF Has(p, "assigneeId") THEN p.assigneeId ELSE t.assigneeId]

C9_UpdateChangesExactlyThePatch ==
    \A A \in UserIds, t \in tasks, p \in ProbePatches :
       \A x \in Run(Store, Request("updateTask", A, t.id, p)) :
          x.out = OK =>
             /\ x.st.tasks = (tasks \ {t}) \cup {C9_Expected(t, p)}
             /\ x.st.users = users
             /\ x.st.nextId = nextId
             /\ x.res = {C9_Expected(t, p)}

\* The assignee of a task, who is not its creator, updated it and the task
\* now has no assignee: the patch was { assigneeId: null }.
C9_Witness ==
    /\ last.op = "updateTask"
    /\ last.out = OK
    /\ \E t \in tasks :
          /\ t.id = last.id
          /\ t.creatorId # last.actor
          /\ t.assigneeId = {}
          /\ t.status = "PENDING"

(***************************************************************************)
(* C10: under every interleaving of the steps of createTask, updateTask,   *)
(* updateTaskStatus, deleteTask and deleteUser, every task's creatorId     *)
(* references an existing user and its assigneeId is null or references    *)
(* an existing user; deleteUser(u) removes the tasks u created and clears  *)
(* assigneeId on the tasks assigned to u; a createTask or updateTask that  *)
(* has passed its existence check and whose assignee is deleted before     *)
(* the write ends in an error and stores nothing.                          *)
(***************************************************************************)
C10_DeleteUserEffect ==
    \A u \in users :
       \A x \in Run(Store, Request("deleteUser", "", 0, [id |-> u])) :
          /\ x.out = OK
          /\ x.st.users = users \ {u}
          /\ \A t \in tasks :
                IF t.creatorId = u
                THEN \A t2 \in x.st.tasks : t2.id # t.id
                ELSE IF t.assigneeId = {u}
                THEN [t EXCEPT !.assigneeId = {}] \in x.st.tasks
                ELSE t \in x.st.tasks
          /\ \A t2 \in x.st.tasks : \E t \in tasks : t.id = t2.id

C10_PastCheck(r) ==
    \/ /\ r.op = "createTask"
       /\ r.pc = "create"
       /\ Has(r.data, "assigneeId")
       /\ Dangling(r.data.assigneeId)
    \/ /\ r.op = "updateTask"
       /\ r.pc = "update"
       /\ Has(r.data, "assigneeId")
       /\ \E a \in r.data.assigneeId : Dangling(a)

C10_ReferencesExist ==
    /\ \A t \in tasks : t.creatorId \in users /\ t.assigneeId \subseteq users
    /\ C10_DeleteUserEffect
    /\ \A r \in pend :
          C10_PastCheck(r) => \A x \in Run(Store, r) : x.out # OK /\ x.st = Store

\* createTask by an existing user passed the existence check of assignee u2,
\* u2 was deleted, and the write was rejected.
C10_Witness ==
    /\ last.op = "createTask"
    /\ last.out = "Referenced record does not exist"
    /\ last.actor \in users
    /\ "u2" \notin users
    /\ tasks = {}

(***************************************************************************)
(* C11: the creatorId of a task never changes after creation.  The row a   *)
(* successful createTask stores has the caller as creatorId; no step       *)
(* changes the creatorId of a stored task; updateTask with a patch that    *)
(* carries a creatorId fails validation, whoever calls it and whatever     *)
(* else the patch holds, and changes nothing.                              *)
(***************************************************************************)
CreatorPatches ==
    {f @@ g : f \in {[creatorId |-> u] : u \in Actors}, g \in SinglePatches \cup {<< >>}}

C11_CreatorPatchRejected ==
    /\ \A A \in Actors, id \in ProbeIds, p \in CreatorPatches :
          \A x \in Run(Store, Request("updateTask", A, id, p)) :
             x.out = ValidationError /\ x.st = Store
    /\ \A A \in UserIds, t \in tasks, p \in ProbePatches :
          \A x \in Run(Store, Request("updateTask", A, t.id, p)) :
             \A t2 \in x.st.tasks : t2.id = t.id => t2.creatorId = t.creatorId
    /\ \A A \in UserIds, t \in tasks, s \in Values(TaskStatus) :
          \A x \in Run(Store, Request("updateTaskStatus", A, t.id, [status |-> s])) :
             \A t2 \in x.st.tasks : t2.id = t.id => t2.creatorId = t.creatorId
    /\ (last.op = "createTask" /\ last.out = OK) =>
          \A t \in last.res : t.creatorId = last.actor

C11_CreatorNeverChanges ==
    /\ []C11_CreatorPatchRejected
    /\ [][\A t \in tasks : \A t2 \in tasks' : t2.id = t.id => t2.creatorId = t.creatorId]_vars

\* The assignee of a task, who did not create it, updated it successfully
\* and is still its assignee; the creator is still the other user.
C11_Witness ==
    /\ last.op = "updateTask"
    /\ last.out = OK
    /\ \E t \in tasks :
          /\ t.id = last.id
          /\ t.assigneeId = {last.actor}
          /\ t.creatorId # last.actor
          /\ t.status = "IN_PROGRESS"

PagingProbes ==
    {<< >>} \cup {[page |-> pg, limit |-> lim] : pg \in {1, 2, 3, 6}, lim \in {1, 10, LimitMax}}
    \cup {[page |-> 2], [limit |-> 7], [page |-> 2, limit |-> 25]}

Visible(A) == {t \in tasks : Participant(t, A)}

\* The row at position i of the user's tasks from the newest to the oldest.
C12_IsNth(A, t, i) ==
    /\ t \in Visible(A)
    /\ Cardinality({o \in Visible(A) : o.id > t.id}) = i - 1

(***************************************************************************)
(* C12: for a valid page and limit, getUserTasks of a user with total      *)
(* visible tasks succeeds, echoes page and limit (1 and 20 when absent),   *)
(* reports that total, returns the rows at positions skip + 1 .. skip +    *)
(* limit of the ordered tasks, skip = (page - 1) * limit, as far as they   *)
(* exist, and totalPages is the least k with k * limit >= total; for       *)
(* total = 0 that is no rows and totalPages 0.                             *)
(***************************************************************************)
C12_PagingArithmetic ==
    \A A \in Creators, f \in PagingProbes :
       LET total == Cardinality(Visible(A))
           pageNo == IF Has(f, "page") THEN f.page ELSE 1
           lim == IF Has(f, "limit") THEN f.limit ELSE 20
           skip == (pageNo - 1) * lim
           left == IF total > skip THEN total - skip ELSE 0
           n == IF left < lim THEN left ELSE lim
       IN  \A x \in Run(Store, Request("getUserTasks", A, 0, f)) :
              /\ x.out = OK
              /\ x.st = Store
              /\ x.res.total = total
              /\ x.res.page = pageNo
              /\ x.res.limit = lim
              /\ Len(x.res.tasks) = n
              /\ \A i \in 1..n : C12_IsNth(A, x.res.tasks[i], skip + i)
              /\ x.res.totalPages * lim >= total
              /\ (x.res.totalPages - 1) * lim < total
              /\ x.res.totalPages >= 0
              /\ total = 0 => x.res.tasks = << >> /\ x.res.totalPages = 0

\* The second page of ten of a user's 25 tasks was listed: three pages,
\* rows 11 to 20 from the newest.
C12_Witness ==
    /\ last.op = "getUserTasks"
    /\ last.out = OK
    /\ last.res.total = 25
    /\ last.res.limit = 10
    /\ last.res.page = 2
    /\ last.res.totalPages = 3
    /\ Len(last.res.tasks) = 10
    /\ last.res.tasks[1].id = 15

BlankQueries == {<< >>, Blank, <<" ", " ">>}

(***************************************************************************)
(* C13: searchTasks with a query that is empty or holds only whitespace    *)
(* issues no store query, succeeds with the empty sequence and leaves the  *)
(* store as it is, for every user and whatever tasks are stored.           *)
(***************************************************************************)
C13_BlankSearchReadsNothing ==
    \A A \in Actors, q \in BlankQueries :
       /\ searchTasksQueries(A, q) = {}
       /\ \A x \in Run(Store, Request("searchTasks", A, 0, [q |-> q])) :
             x.out = OK /\ x.res = << >> /\ x.st = Store

\* A user who has a task that the other query of the inputs matches
\* searched and got nothing: the query was the blank one.
C13_Witness ==
    /\ last.op = "searchTasks"
    /\ last.out = OK
    /\ last.res = << >>
    /\ \E t \in tasks :
          /\ Participant(t, last.actor)
          /\ containsInsensitive(t.description, <<"x", "A">>)

BulkProbeQueries == {<<"a">>, <<"b", " ">>}

\* The tasks visible to A whose title or description contains q.
C14_Matching(A, q) ==
    {t \in Visible(A) : Occurs(t.title, q) \/ \E d \in t.description : Occurs(d, q)}

(***************************************************************************)
(* C14: searchTasks returns at most 50 tasks; the task at position i of    *)
(* the result is the visible matching task with exactly i - 1 visible      *)
(* matching tasks written more recently, so that of more than 50 matches   *)
(* the 50 most recently updated are returned, newest first.                *)
(***************************************************************************)
C14_SearchReturnsNewestFifty ==
    \A A \in Creators, q \in BulkProbeQueries :
       LET M == C14_Matching(A, q)
           n == IF Cardinality(M) < 50 THEN Cardinality(M) ELSE 50
       IN  \A x \in Run(Store, Request("searchTasks", A, 0, [q |-> q])) :
              /\ x.out = OK
              /\ Len(x.res) = n
              /\ \A i \in 1..n :
                    /\ x.res[i] \in M
                    /\ Cardinality({o \in M : Pos(recent, o.id) < Pos(recent, x.res[i].id)})
                          = i - 1

\* The creator of MaxBulk matching tasks searched after the oldest task was
\* touched: 50 tasks came back, the touched one first.
C14_Witness ==
    /\ last.op = "searchTasks"
    /\ last.actor = "u1"
    /\ Cardinality(tasks) = MaxBulk
    /\ Len(last.res) = 50
    /\ last.res[1].id = 1
    /\ last.res[50].id = MaxBulk - 48

Letters(n) == [i \in 1..n |-> "a"]

ShortSearches == {<< >>, Blank, <<"a">>, <<" ", "A", " ">>, <<" ", " ", "b">>}

GoodSearches ==
    {<<"a", "B">>, <<" ", "x", "a", " ">>, <<"c", " ", "d">>,
     Letters(SearchMax), <<" ">> \o Letters(SearchMax) \o <<" ">>}

SearchFilter(q) == {[search |-> q], [search |-> q, status |-> "PENDING", limit |-> 1]}

(***************************************************************************)
(* C15: getUserTasks with a search filter of fewer than 2 characters after *)
(* trimming fails with a validation error, issues no store query and       *)
(* changes nothing; with 2 to 255 characters after trimming it succeeds.   *)
(***************************************************************************)
C15_ShortSearchFilterRejected ==
    \A A \in Actors :
       /\ \A q \in ShortSearches : \A f \in SearchFilter(q) :
             /\ getUserTasksQueries(A, f) = {}
             /\ \A x \in Run(Store, Request("getUserTasks", A, 0, f)) :
                   x.out = ValidationError /\ x.res = {} /\ x.st = Store
       /\ \A q \in GoodSearches : \A f \in SearchFilter(q) :
             /\ getUserTasksQueries(A, f) # {}
             /\ \A x \in Run(Store, Request("getUserTasks", A, 0, f)) :
                   x.out = OK /\ x.st = Store

\* A user with a task listed tasks with a one-character search filter and
\* got a validation error.
C15_Witness ==
    /\ last.op = "getUserTasks"
    /\ last.out = ValidationError
    /\ \E t \in tasks : Participant(t, last.actor)

SortProbes ==
    {[sortBy |-> by, sortOrder |-> dir, page |-> pg, limit |-> 1] :
        by \in SortFields, dir \in SortOrders, pg \in {1, 2}}
    \cup {[search |-> <<"A", "B">>, sortBy |-> "updatedAt"],
          [search |-> <<"a", "b">>, sortBy |-> "updatedAt", sortOrder |-> "asc"]}

ListProbes == {f \in ProbeFilters \cup SortProbes : ~taskFilterError(f)}

\* Task t satisfies visibility for A, every structural filter of f and its
\* search.
C16_Satisfies(A, f, t) ==
    /\ t.creatorId = A \/ t.assigneeId = {A}
    /\ Has(f, "status") => t.status = f.status
    /\ Has(f, "priority") => t.priority = f.priority
    /\ Has(f, "assigneeId") => t.assigneeId = {f.assigneeId}
    /\ Has(f, "creatorId") => t.creatorId = f.creatorId
    /\ Has(f, "dueDateFrom") => \E d \in t.dueDate : d >= f.dueDateFrom
    /\ Has(f, "dueDateTo") => \E d \in t.dueDate : d <= f.dueDateTo
    /\ Has(f, "search") =>
          \/ Occurs(t.title, trim(f.search))
          \/ \E d \in t.description : Occurs(d, trim(f.search))

\* The sequences of all rows of M in which no row stands before one that
\* the sort column puts first.
C16_Orders(M, by, dir) ==
    {s \in [1..Cardinality(M) -> M] :
        /\ \A i, j \in 1..Cardinality(M) : i # j => s[i] # s[j]
        /\ \A i, j \in 1..Cardinality(M) :
              i < j => IF dir = "asc" THEN ~Before(by, Store, s[j], s[i])
                                      ELSE ~Before(by, Store, s[i], s[j])}

C16_Slice(s, skip, limit) ==
    LET left == IF Len(s) > skip THEN Len(s) - skip ELSE 0
    IN  [i \in 1..(IF left < limit THEN left ELSE limit) |-> s[skip + i]]

(***************************************************************************)
(* C16: with no write in between, getUserTasks(A, filters) reports as      *)
(* total the number of stored tasks that are visible to A, satisfy every   *)
(* structural filter supplied and, when search is set, contain the         *)
(* (trimmed) search in title or description whatever the letter case;      *)
(* tasks is the slice [skip, skip + limit) of those tasks in an order of   *)
(* sortBy / sortOrder (createdAt descending by default).                   *)
(***************************************************************************)
C16_ListIsExact ==
    \A A \in UserIds, f \in ListProbes :
       LET M == {t \in tasks : C16_Satisfies(A, f, t)}
           by == IF Has(f, "sortBy") THEN f.sortBy ELSE "createdAt"
           dir == IF Has(f, "sortOrder") THEN f.sortOrder ELSE "desc"
           pageNo == IF Has(f, "page") THEN f.page ELSE 1
           lim == IF Has(f, "limit") THEN f.limit ELSE 20
       IN  \A x \in Run(Store, Request("getUserTasks", A, 0, f)) :
              /\ x.out = OK
              /\ x.res.total = Cardinality(M)
              /\ \E s \in C16_Orders(M, by, dir) :
                    x.res.tasks = C16_Slice(s, (pageNo - 1) * lim, lim)

\* A user with two visible tasks listed them with a filter that only one
\* of them satisfies.
C16_Witness ==
    /\ last.op = "getUserTasks"
    /\ last.out = OK
    /\ Cardinality(Visible(last.actor)) = 2
    /\ last.res.total = 1
    /\ Len(last.res.tasks) = 1

ProbeEmails == {E1, E1Upper, E2Mixed, <<"b", "@", "x">>, <<"A", "b", "@", "x">>}

StoredEmails == {a.email : a \in accounts}

C17_IsLowercase(e) == \A i \in 1..Len(e) : e[i] = Lower(e[i])

C17_SameButForCase(e, f) ==
    /\ Len(e) = Len(f)
    /\ \A i \in 1..Len(e) : Lower(e[i]) = Lower(f[i])

C17_LowercaseOf(f, e) == C17_IsLowercase(f) /\ C17_SameButForCase(f, e)

C17_Registered(email) == {a \in accounts : C17_SameButForCase(a.email, email)}

\* C17: every stored email is lowercase and no two users share one;
\* registering an email that differs from a stored one at most in case fails
\* and stores nothing, updateUser stores the lowercased email, and
\* getUserByEmail and authenticateUser look up the lowercased email.
C17_EmailsLowercaseAndUnique ==
    /\ \A a \in accounts : C17_IsLowercase(a.email)
    /\ \A a, b \in accounts : a.email = b.email => a = b
    /\ \A e \in ProbeEmails :
         /\ \A x \in Run(Store, Request("createUser", "", 0,
                                        [email |-> e, name |-> T1, password |-> Pw])) :
              /\ C17_Registered(e) # {} => x.out # OK /\ x.st = Store
              /\ x.out = OK => \E a \in x.st.accounts \ accounts :
                                  /\ C17_LowercaseOf(a.email, e)
                                  /\ x.st.accounts = accounts \cup {a}
         /\ \A u \in UserIds :
              \A x \in Run(Store, Request("updateUser", "", 0,
                                          [id |-> u, patch |-> [email |-> e]])) :
                IF x.out = OK
                THEN /\ \E a \in x.st.accounts : a.id = u /\ C17_LowercaseOf(a.email, e)
                     /\ \A a \in accounts : a.id # u => ~C17_SameButForCase(a.email, e)
                ELSE x.st = Store
         /\ \A x \in Run(Store, Request("getUserByEmail", "", 0, [email |-> e])) :
              x.res = {userWithoutPassword(a) : a \in C17_Registered(e)}
         /\ \A x \in Run(Store, Request("authenticateUser", "", 0,
                                        [email |-> e, password |-> Pw])) :
              x.res \subseteq {userWithoutPassword(a) : a \in C17_Registered(e)}

\* A registration was refused as a duplicate although every email offered
\* for registration has a capital letter and the stored one has none.
C17_Witness ==
    /\ last.op = "createUser"
    /\ last.out = handleDatabaseError(PrismaError("P2002"))
    /\ StoredEmails = {E1}
    /\ \E x \in Run(Store, Request("getUserByEmail", "", 0, [email |-> E1Upper])) :
         x.res # {}

C18_Requests ==
    {Request("createTask", c, 0, d) : c \in Creators, d \in RaceCreateInputs}
    \cup {Request(op, u, t, << >>) :
            op \in {"getTaskById", "deleteTask"}, u \in Creators, t \in RaceTaskIds}
    \cup {Request("getUserTasks", u, 0, << >>) : u \in Creators}
    \cup {Request("searchTasks", u, 0, [q |-> <<"a">>]) : u \in Creators}
    \cup {Request("updateTask", u, t, [title |-> T2]) : u \in Creators, t \in RaceTaskIds}
    \cup {Request("updateTaskStatus", u, t, [status |-> "COMPLETED"]) :
            u \in Creators, t \in RaceTaskIds}
    \cup {Request("createUser", "", 0, d) : d \in RegistrationInputs}
    \cup {Request("getUserById", "", 0, [id |-> u]) : u \in Creators}
    \cup {Request("getUserByEmail", "", 0, [email |-> e]) : e \in {E1Upper, E2Mixed}}
    \cup {Request("updateUser", "", 0, [id |-> u, patch |-> d]) :
            u \in Creators, d \in UserPatchInputs}
    \cup {Request("getAllUsers", "", 0, << >>)}
    \cup {Request("deleteUser", "", 0, [id |-> u]) : u \in Creators}

C18_Authentications == {Request("authenticateUser", "", 0, d) : d \in LoginInputs}

C18_TaskClean(t) ==
    /\ "passwordHash" \notin DOMAIN t
    /\ \A p \in t.creator \cup t.assignee : DOMAIN p = {"id", "name", "email"}
    /\ \E p \in t.creator : p.id = t.creatorId
    /\ \A a \in t.assigneeId : \E p \in t.assignee : p.id = a

C18_Clean(op, ret) ==
    CASE op \in {"createTask", "getTaskById", "updateTask", "updateTaskStatus"} ->
            \A t \in ret : C18_TaskClean(t)
      [] op = "getUserTasks" ->
            \A i \in DOMAIN ret.tasks : C18_TaskClean(ret.tasks[i])
      [] op = "searchTasks" ->
            \A i \in DOMAIN ret : C18_TaskClean(ret[i])
      [] op = "getAllUsers" ->
            \A i \in DOMAIN ret : "passwordHash" \notin DOMAIN ret[i]
      [] op \in {"createUser", "authenticateUser", "getUserById", "getUserByEmail",
                 "updateUser"} ->
            \A a \in ret : "passwordHash" \notin DOMAIN a
      [] op = "GET /api/tasks/search" ->
            \A d \in ret.data : \A i \in DOMAIN d.tasks : C18_TaskClean(d.tasks[i])
      [] op = "GET /api/tasks" ->
            \A d \in ret.data : \A i \in DOMAIN d.tasks : C18_TaskClean(d.tasks[i])
      [] OTHER -> ret = {}

\* The stores that differ from this one at most in the password hashes.
C18_Rehashed ==
    {[Store EXCEPT !.accounts = {[a EXCEPT !.passwordHash = h[a.id]] : a \in @}] :
       h \in [users -> Hashes]}

C18_Shown(st, r) ==
    {[out |-> x.out, ret |-> returned(x.st.accounts, r, x)] : x \in Run(st, r)}

\* C18: no value handed to a caller holds a passwordHash: the tasks of a
\* result carry their creator and assignee as exactly {id, name, email},
\* user results have no passwordHash key, and every operation other than
\* authenticateUser answers the same on stores that differ only in the
\* password hashes.
C18_PasswordHashNeverReturned ==
    /\ last.out = OK => C18_Clean(last.op, last.ret)
    /\ \A r \in C18_Requests \cup C18_Authentications :
         \A x \in Run(Store, r) :
           x.out = OK => C18_Clean(r.op, returned(x.st.accounts, r, x))
    /\ \A r \in C18_Requests :
         \A st \in C18_Rehashed : C18_Shown(st, r) = C18_Shown(Store, r)

\* A list was returned whose task has a creator and an assignee, in a store
\* whose users have different password hashes.
C18_Witness ==
    /\ last.op = "getUserTasks"
    /\ last.out = OK
    /\ \E i \in DOMAIN last.ret.tasks :
         last.ret.tasks[i].creator # {} /\ last.ret.tasks[i].assignee # {}
    /\ {a.passwordHash : a \in accounts} = Hashes

C19_Data ==
    WithAssignee({[title |-> T1], [title |-> <<" ", "c", "d", " ">>, description |-> Blank],
                  [title |-> T1, dueDate |-> 3],
                  [title |-> T2, description |-> D1, status |-> "IN_PROGRESS",
                   priority |-> "HIGH", dueDate |-> 3]}
                 \cup {[title |-> T1, status |-> v] : v \in Values(TaskStatus)}
                 \cup {[title |-> T1, priority |-> v] : v \in Values(TaskPriority)},
                 {"u2", NoSuchUser})

C19_Supplied(d, k) == IF Has(d, k) THEN {d[k]} ELSE {}

C19_Expected(A, d) ==
    [id |-> nextId,
     title |-> trim(d.title),
     description |-> {trim(v) : v \in {w \in C19_Supplied(d, "description") : trim(w) # << >>}},
     status |-> IF Has(d, "status") THEN d.status ELSE "PENDING",
     priority |-> IF Has(d, "priority") THEN d.priority ELSE "MEDIUM",
     dueDate |-> C19_Supplied(d, "dueDate"),
     creatorId |-> A,
     assigneeId |-> C19_Supplied(d, "assigneeId")]

\* C19: createTask by an existing user with valid data (an assignee, when
\* given, exists) stores exactly one new task: its creatorId is the caller,
\* its status and priority are the supplied ones or PENDING and MEDIUM, its
\* assigneeId and dueDate the supplied ones or null; data that names a
\* creator is rejected and stores nothing.
C19_CreateStoresOneTaskOfTheCaller ==
    \A A \in Actors, d \in C19_Data :
        /\ \A x \in Run(Store, Request("createTask", A, 0, d)) :
             IF A \in users /\ C19_Supplied(d, "assigneeId") \subseteq users
             THEN /\ x.out = OK
                  /\ NoRow(nextId)
                  /\ x.st.tasks = tasks \cup {C19_Expected(A, d)}
                  /\ x.res = {C19_Expected(A, d)}
                  /\ x.st.users = users
             ELSE x.out # OK /\ x.st = Store
        /\ \A c \in Creators :
             \A x \in Run(Store, Request("createTask", A, 0, d @@ [creatorId |-> c])) :
                x.out = ValidationError /\ x.st = Store

\* A task was created from a title alone.
C19_Witness ==
    /\ last.op = "createTask"
    /\ last.out = OK
    /\ \E t \in last.res \cap tasks :
         /\ t.creatorId = last.actor
         /\ t.status = "PENDING"
         /\ t.priority = "MEDIUM"
         /\ t.assigneeId = {}
         /\ t.dueDate = {}

C20_Texts ==
    {<< >>, Blank, <<"a">>, <<" ", "a", " ">>, <<" ", " ", "b">>, <<"a", "b">>,
     <<" ", "A", "b", " ">>, <<"a", " ">>, <<"c", "d", " ">>, <<"x", "a", "B">>}

C20_Queries == {<< >>, [q |-> NotText]} \cup {[q |-> Text(s)] : s \in C20_Texts}

\* q is missing, is not a string, or has fewer than 2 characters once trimmed.
C20_Rejected(query) ==
    \/ "q" \notin DOMAIN query
    \/ query.q.kind # "string"
    \/ Len(trim(query.q.text)) < 2

C20_Answers(u, searchQuery) ==
    {[tasks |-> returned(x.st.accounts, Request("searchTasks", u, 0, [q |-> searchQuery]), x),
      query |-> searchQuery,
      count |-> Len(x.res)] :
       x \in Run(Store, Request("searchTasks", u, 0, [q |-> searchQuery]))}

\* C20: for an authenticated user, GET /api/tasks/search answers 400
\* VALIDATION_ERROR without calling the search service when q is missing,
\* is not a string, or is shorter than 2 characters after trimming;
\* otherwise it calls searchTasks once, with the trimmed query, and answers
\* 200 with the tasks found, the trimmed query and count = number of tasks.
C20_SearchRouteValidatesQuery ==
    \A u \in UserIds, query \in C20_Queries :
        \A resp \in searchTasksController(Store, {u}, query) :
            IF C20_Rejected(query)
            THEN /\ resp.status = 400
                 /\ resp.code = "VALIDATION_ERROR"
                 /\ resp.calls = {}
                 /\ resp.data = {}
            ELSE /\ resp.status = 200
                 /\ resp.calls = {[userId |-> u, searchQuery |-> trim(query.q.text)]}
                 /\ resp.data # {}
                 /\ resp.data \subseteq C20_Answers(u, trim(query.q.text))
                 /\ \A d \in resp.data : d.count = Len(d.tasks)

\* The route answered 200 with one task for a query that had to be trimmed.
C20_Witness ==
    /\ last.op = "GET /api/tasks/search"
    /\ last.ret.status = 200
    /\ \E d \in last.ret.data : d.count = 1 /\ d.query = <<"a", "b">>

\* No task with this id is stored, or the stored one is neither created by
\* A nor assigned to A.
C21_Hidden(A, id) == \A t \in tasks : t.id = id => ~Participant(t, A)

(***************************************************************************)
(* C21 as stated: updateTask on a task that does not exist or is not       *)
(* visible to the actor fails with 'Task not found or access denied' for   *)
(* every patch, a patch that violates the update schema included.          *)
(***************************************************************************)
C21_HiddenTaskNotFoundForEveryPatch ==
    \A A \in UserIds, id \in ProbeIds, p \in ProbePatches :
        C21_Hidden(A, id) =>
            \A x \in Run(Store, Request("updateTask", A, id, p)) :
                x.out = NotFoundOrDenied

(***************************************************************************)
(* C21, amended: updateTask validates the patch before it looks the task   *)
(* up.  On a task that does not exist or is not visible to the actor it    *)
(* fails with 'Task not found or access denied' for every patch that       *)
(* satisfies the update schema and with a validation error for every patch *)
(* that violates it; the store stays as it was in both cases.              *)
(***************************************************************************)
C21_HiddenTaskNotFoundForValidPatch ==
    \A A \in UserIds, id \in ProbeIds, p \in ProbePatches :
        C21_Hidden(A, id) =>
            \A x \in Run(Store, Request("updateTask", A, id, p)) :
                /\ x.out = IF taskUpdateError(p) THEN ValidationError ELSE NotFoundOrDenied
                /\ x.st = Store

\* updateTask with a patch that violates the schema was refused as invalid
\* on a stored task that the actor takes no part in.
C21_Witness ==
    /\ last.op = "updateTask"
    /\ last.out = ValidationError
    /\ \E t \in tasks : t.id = last.id /\ ~Participant(t, last.actor)

RecordNotFound == handleDatabaseError(PrismaError("P2025"))

\* A request in flight that has passed its authorization fetch and whose
\* task has been deleted since.
C22_Overtaken(r) ==
    /\ r \in pend
    /\ r.op \in {"updateTask", "updateTaskStatus", "deleteTask"}
    /\ NoRow(r.id)

\* The next store call of an overtaken request changes nothing and ends the
\* request in 'The requested record was not found'; only the assignee
\* lookup of updateTask comes before that, and it either ends the request in
\* 'Assigned user does not exist' or lets it go on to the write.
C22_NextCallFails ==
    \A r \in pend :
        C22_Overtaken(r) =>
            \A x \in Step(Store, r) :
                /\ x.st = Store
                /\ IF r.pc = "assignee"
                   THEN \/ x.pc = "done" /\ x.out = AssigneeMissing
                        \/ x.pc = "update"
                   ELSE x.pc = "done" /\ x.out = RecordNotFound

\* C22: a task deleted by another request between the authorization fetch
\* and the write of updateTask, updateTaskStatus or deleteTask makes the
\* later operation end in an error that reaches its caller (the store's
\* record-not-found error once the write is issued); the operation never
\* reports success and never creates or changes a task.
C22_LostWriteIsReported ==
    /\ []C22_NextCallFails
    /\ [][\A r \in pend :
            (C22_Overtaken(r) /\ r.pc # "assignee" /\ pend' = pend \ {r}) =>
                /\ last'.op = r.op
                /\ last'.actor = r.actor
                /\ last'.id = r.id
                /\ last'.out = RecordNotFound
                /\ tasks' = tasks]_vars

\* updateTask reached its write after its task had been deleted, and
\* reported that the record was not found.
C22_Witness ==
    /\ last.op = "updateTask"
    /\ last.out = RecordNotFound
    /\ NoRow(last.id)
    /\ nextId > last.id

C23_Ids(s) == {s[i].id : i \in 1..Len(s)}

\* B gets the task from no read and can change nothing about it.
C23_Locked(st, B, id) ==
    /\ getTaskById(st, id, B) = {}
    /\ \A x \in Run(st, Request("getUserTasks", B, 0, << >>)) : id \notin C23_Ids(x.res.tasks)
    /\ \A x \in Run(st, Request("searchTasks", B, 0, [q |-> <<"a">>])) : id \notin C23_Ids(x.res)
    /\ \A p \in {[title |-> T2], [assigneeId |-> {B}], [status |-> "COMPLETED"]} :
         \A x \in Run(st, Request("updateTask", B, id, p)) :
            x.out = NotFoundOrDenied /\ x.st = st
    /\ \A v \in Values(TaskStatus) :
         \A x \in Run(st, Request("updateTaskStatus", B, id, [status |-> v])) :
            x.out # OK /\ x.st = st

\* C reads the task and can update it.
C23_Open(st, C, id) ==
    /\ getTaskById(st, id, C) = {t \in st.tasks : t.id = id}
    /\ \A x \in Run(st, Request("getUserTasks", C, 0, << >>)) : id \in C23_Ids(x.res.tasks)
    /\ \A x \in Run(st, Request("searchTasks", C, 0, [q |-> <<"a">>])) : id \in C23_Ids(x.res)
    /\ \A x \in Run(st, Request("updateTask", C, id, [title |-> T2])) :
         x.out = OK /\ \E t \in x.st.tasks : t.id = id /\ t.title = T2
    /\ \A v \in Values(TaskStatus) :
         \A x \in Run(st, Request("updateTaskStatus", C, id, [status |-> v])) :
            x.out = OK /\ \E t \in x.st.tasks : t.id = id /\ t.status = v

\* Who may read and update a task is decided by the rows as they are now.
C23_FollowsStore ==
    \A t \in tasks, A \in UserIds :
        IF Participant(t, A) THEN C23_Open(Store, A, t.id) ELSE C23_Locked(Store, A, t.id)

\* C23: permissions follow the stored state.  The step in which a successful
\* updateTask changes a task's assignee from B, who is not its creator, to
\* nobody or to another user C leads to a state in which B no longer gets
\* the task from getTaskById, getUserTasks or searchTasks and fails to
\* update it or its status, while C reads and updates it; and in every
\* state these answers depend on the stored rows alone.
C23_PermissionsFollowState ==
    /\ []C23_FollowsStore
    /\ [][\A t \in tasks, B \in UserIds :
            (/\ t.assigneeId = {B}
             /\ t.creatorId # B
             /\ last'.op = "updateTask"
             /\ last'.out = OK
             /\ last'.id = t.id
             /\ \E n \in tasks' : n.id = t.id /\ n.assigneeId # {B}) =>
                /\ C23_Locked(Store', B, t.id)
                /\ \A n \in tasks' :
                     n.id = t.id => \A C \in n.assigneeId : C23_Open(Store', C, t.id)]_vars

\* The assignee u2 of a task created by u1 has just passed the task on to
\* u3 by a successful updateTask.
C23_Witness ==
    /\ last.op = "updateTask"
    /\ last.out = OK
    /\ last.actor = "u2"
    /\ \E t \in tasks : t.id = last.id /\ t.creatorId = "u1" /\ t.assigneeId = {"u3"}

C24_Data ==
    {[title |-> T1], [title |-> T2, description |-> D1, status |-> "IN_PROGRESS",
                      priority |-> "HIGH", dueDate |-> 3],
     [title |-> Blank], [title |-> T1, dueDate |-> 1]}

C24_Patches ==
    {<< >>, [assigneeId |-> {}], [title |-> T2], [title |-> Blank], [dueDate |-> {}],
     [status |-> "COMPLETED", assigneeId |-> {}], [description |-> D1, priority |-> "LOW"]}

\* C24: createTask whose data has no assigneeId and updateTask whose patch
\* has a null assigneeId or none look no user up: no id is passed to
\* prisma.user.findUnique and no request waits at the lookup, whatever its
\* outcome; with an assignee in the data or the patch exactly that id is
\* looked up.
C24_NoAssigneeNoUserLookup ==
    /\ \A A \in Actors, d \in C24_Data :
         /\ ~taskCreationError(d) => createTaskUserLookups(taskCreationValue(d)) = {}
         /\ \A x \in Step(Store, Request("createTask", A, 0, d)) : x.pc = "done"
    /\ \A A \in Actors, d \in C24_Data, a \in UserIds :
         ~taskCreationError(d) =>
            createTaskUserLookups(taskCreationValue(d @@ [assigneeId |-> a])) = {a}
    /\ \A A \in Actors, id \in ProbeIds, p \in C24_Patches :
         /\ ~taskUpdateError(p) => updateTaskUserLookups(taskUpdateValue(p)) = {}
         /\ \A x \in Step(Store, Request("updateTask", A, id, p)) : x.pc # "assignee"
         /\ \A x \in Step(Store, [Request("updateTask", A, id, p) EXCEPT !.pc = "update"]) :
              x.pc = "done"
    /\ \A a \in UserIds :
         updateTaskUserLookups(taskUpdateValue([assigneeId |-> {a}])) = {a}

\* An assignee has removed the assignment with a patch whose assigneeId is
\* null, and the update was made.
C24_Witness ==
    /\ last.op = "updateTask"
    /\ last.out = OK
    /\ \E t \in tasks : t.id = last.id /\ t.assigneeId = {} /\ t.creatorId # last.actor

\* C25: status transitions are unrestricted.  For the creator and the
\* assignee of a task in any status and for each of PENDING, IN_PROGRESS and
\* COMPLETED, the status a task already has included, updateTaskStatus
\* succeeds, leaves the task with the new status and with every other field
\* as it was, and touches no other task; every stored status is one of the
\* three values, and the route refuses a status that is none of them without
\* calling the service.
C25_AnyStatusToAnyStatus ==
    /\ \A t \in tasks : t.status \in {"PENDING", "IN_PROGRESS", "COMPLETED"}
    /\ \A t \in tasks, A \in UserIds, v \in {"PENDING", "IN_PROGRESS", "COMPLETED"} :
         Participant(t, A) =>
            /\ \A x \in Run(Store, Request("updateTaskStatus", A, t.id, [status |-> v])) :
                 /\ x.out = OK
                 /\ x.res = {[t EXCEPT !.status = v]}
                 /\ x.st.tasks = (tasks \ {t}) \cup {[t EXCEPT !.status = v]}
                 /\ x.st.users = users
            /\ \A y \in updateTaskStatusController(Store, {A}, t.id, [status |-> v]) :
                 y.resp.status = 200 /\ y.st.tasks = (tasks \ {t}) \cup {[t EXCEPT !.status = v]}
    /\ \A A \in UserIds, id \in TaskIds, b \in {<< >>, [status |-> "DONE"], [status |-> ""]} :
         \A y \in updateTaskStatusController(Store, {A}, id, b) :
            /\ y.resp.status = 400
            /\ y.resp.calls = {}
            /\ y.st = Store

\* The assignee of a task has set its status to PENDING by updateTaskStatus
\* while a completed task is stored.
C25_Witness ==
    /\ last.op = "updateTaskStatus"
    /\ last.out = OK
    /\ \E t \in tasks : t.id = last.id /\ t.status = "PENDING" /\ t.assigneeId = {last.actor}
    /\ \E t \in tasks : t.status = "COMPLETED"

(***************************************************************************)
(* C26: a list request that names no page, limit, sortBy or sortOrder is   *)
(* resolved with page 1, limit 20, sortBy createdAt and sortOrder desc,    *)
(* through getUserTasks and through GET /api/tasks.                        *)
(***************************************************************************)
C26_Resolved == [page |-> 1, limit |-> 20, sortBy |-> "createdAt", sortOrder |-> "desc"]

C26_Unpaged == {<< >>, [status |-> "PENDING"], [priority |-> "HIGH"]}

\* getUserTasks called with filters f answers as it does for f with the
\* four values written out.
C26_ServiceDefaults ==
    \A u \in UserIds, f \in C26_Unpaged :
        LET x == Run(Store, Request("getUserTasks", u, 0, f))
        IN  /\ x = Run(Store, Request("getUserTasks", u, 0, f @@ C26_Resolved))
            /\ \A y \in x : y.out = OK /\ y.res.page = 1 /\ y.res.limit = 20

\* GET /api/tasks with query f answers as getUserTasks does for f with the
\* four values written out.
C26_RouteDefaults ==
    \A u \in UserIds, f \in C26_Unpaged :
        \A resp \in getTasksController(Store, {u}, f) :
            /\ resp.status = 200
            /\ \E y \in Run(Store, Request("getUserTasks", u, 0, f @@ C26_Resolved)) :
                    resp.data = {returned(Store.accounts, Request("getUserTasks", u, 0, f), y)}

\* C26: with no page, limit, sortBy and sortOrder a list request is answered
\* as one with page 1, limit 20, sortBy createdAt and sortOrder desc, by
\* getUserTasks and by GET /api/tasks.
C26_ListDefaults == C26_ServiceDefaults /\ C26_RouteDefaults

(***************************************************************************)
(* C27: a list request with a page that is not an integer >= 1, a limit    *)
(* that is not an integer in 1..100, or an unknown status, priority,       *)
(* sortBy or sortOrder fails with a validation error and reads nothing,    *)
(* through getUserTasks and through GET /api/tasks.                        *)
(***************************************************************************)
C27_BadFilters ==
    {[page |-> 0], [page |-> -1], [limit |-> 0], [limit |-> LimitMax + 1],
     [status |-> "DONE"], [priority |-> "URGENT"], [sortBy |-> "id"],
     [sortOrder |-> "down"], [page |-> 0, limit |-> 5]}

C27_BadQueries ==
    {[page |-> Digits(0)], [page |-> Digits(-1)], [page |-> Fraction(1)], [page |-> Word],
     [limit |-> Digits(0)], [limit |-> Digits(LimitMax + 1)], [limit |-> Word],
     [status |-> "DONE"], [priority |-> "URGENT"], [sortBy |-> "id"],
     [sortOrder |-> "down"]}

C27_ServiceRejects ==
    \A u \in UserIds, f \in C27_BadFilters :
        /\ getUserTasksQueries(u, f) = {}
        /\ \A y \in Run(Store, Request("getUserTasks", u, 0, f)) :
                y.out = ValidationError /\ y.st = Store

\* The where clauses that a response of GET /api/tasks stands for.
C27_Reads(resp) == UNION {getUserTasksQueries(c.userId, c.filters) : c \in resp.calls}

C27_RouteRejects ==
    \A u \in UserIds, q \in C27_BadQueries :
        \A resp \in getTasksController(Store, {u}, q) :
            /\ resp.status = 400
            /\ resp.code = "VALIDATION_ERROR"
            /\ C27_Reads(resp) = {}

\* C27: a list request with a bad page, limit, status, priority, sortBy or
\* sortOrder fails with a validation error and reads nothing, through
\* getUserTasks and through GET /api/tasks.
C27_BadListRequestRejected == C27_ServiceRejects /\ C27_RouteRejects

(***************************************************************************)
(* C28: under every interleaving a write of updateTask or updateTaskStatus *)
(* is applied for an actor who is the creator or the assignee of the task  *)
(* in the state just before the write.                                     *)
(***************************************************************************)
C28_Participant(userId, id) ==
    \E t \in tasks : t.id = id /\ (t.creatorId = userId \/ t.assigneeId = {userId})

\* The step in which request r in flight, of a user who is still stored,
\* applies its write and returns.
C28_Writes(r) ==
    /\ r.op \in {"updateTask", "updateTaskStatus"}
    /\ r.actor \in users
    /\ r.pc = "update"
    /\ pend' = pend \ {r}
    /\ last'.op = r.op /\ last'.actor = r.actor /\ last'.id = r.id
    /\ last'.out = OK

\* C28: every step in which updateTask or updateTaskStatus applies its write
\* starts in a state where the actor is the creator or the assignee of the
\* task.
C28_WritesAreAuthorized ==
    [][\A r \in pend : C28_Writes(r) => C28_Participant(r.actor, r.id)]_vars

(***************************************************************************)
(* C29: a TaskService operation that ends in an error leaves the stored    *)
(* tasks and users as they were, and createTask, updateTask and            *)
(* getUserTasks report a validation failure before any store access.       *)
(***************************************************************************)
C29_BadData ==
    {[title |-> Blank], [title |-> Blank, assigneeId |-> NoSuchUser],
     [title |-> T1, status |-> "DONE"], [title |-> T1, owner |-> "u1"]}

C29_BadPatches ==
    {[title |-> Blank], [status |-> "DONE"], [creatorId |-> "u2"],
     [title |-> Blank, assigneeId |-> {NoSuchUser}]}

C29_BadFilters == {[page |-> 0], [limit |-> 0], [status |-> "DONE"], [search |-> <<"A">>]}

\* The positions of an operation: before each of its store calls.
C29_Pcs(op) ==
    CASE op = "createTask" -> {"start", "create"}
      [] op = "updateTask" -> {"start", "assignee", "update"}
      [] op = "updateTaskStatus" -> {"start", "update"}
      [] op = "deleteTask" -> {"start", "delete"}
      [] OTHER -> {"start"}

\* Requests of every operation, failing and succeeding, at every position.
C29_Requests ==
    {r \in {[Request(op.op, u, id, op.data) EXCEPT !.pc = pc] :
        op \in {[op |-> "createTask", data |-> d] :
                    d \in C29_BadData \cup {[title |-> T1],
                                            [title |-> T1, assigneeId |-> NoSuchUser]}}
               \cup {[op |-> "updateTask", data |-> p] :
                        p \in C29_BadPatches \cup {[title |-> T2], [assigneeId |-> {}],
                                                   [assigneeId |-> {NoSuchUser}]}}
               \cup {[op |-> "updateTaskStatus", data |-> [status |-> "COMPLETED"]],
                     [op |-> "deleteTask", data |-> << >>],
                     [op |-> "getTaskById", data |-> << >>],
                     [op |-> "searchTasks", data |-> [q |-> T1]]}
               \cup {[op |-> "getUserTasks", data |-> f] : f \in C29_BadFilters \cup {<< >>}},
        u \in UserIds \cup {NoSuchUser},
        id \in 1..(MaxTasks + 1),
        pc \in {"start", "assignee", "create", "update", "delete"}} :
     r.pc \in C29_Pcs(r.op)}

\* No step but the last changes the store, and a last step that reports an
\* error does not change it either.
C29_ErrorsChangeNothing ==
    /\ \A r \in C29_Requests : \A x \in Step(Store, r) :
            (x.pc # "done" \/ x.out # OK) => x.st = Store
    /\ \A r \in C29_Requests : r.pc = "start" =>
            \A x \in Run(Store, r) : x.out # OK => x.st = Store

\* Input that fails validation is answered in the first step, alike for
\* every store, actor and task.
C29_ValidationComesFirst ==
    \A u \in UserIds \cup {NoSuchUser}, id \in 1..(MaxTasks + 1) :
        /\ \A d \in C29_BadData :
                Step(Store, Request("createTask", u, 0, d))
                    = {[st |-> Store, pc |-> "done", out |-> ValidationError, res |-> {}]}
        /\ \A p \in C29_BadPatches :
                Step(Store, Request("updateTask", u, id, p))
                    = {[st |-> Store, pc |-> "done", out |-> ValidationError, res |-> {}]}
        /\ \A f \in C29_BadFilters :
                /\ Step(Store, Request("getUserTasks", u, 0, f))
                    = {[st |-> Store, pc |-> "done", out |-> ValidationError, res |-> {}]}
                /\ getUserTasksQueries(u, f) = {}

\* C29: an operation of TaskService that ends in an error leaves tasks and
\* users unchanged, and invalid input to createTask, updateTask and
\* getUserTasks is rejected before the store is looked at.
C29_FailedOperationsLeaveStore == C29_ErrorsChangeNothing /\ C29_ValidationComesFirst

\* updateTask has just rejected an invalid patch for a task the caller may
\* update, and the task is still stored.
C29_Witness ==
    /\ last.op = "updateTask"
    /\ last.out = ValidationError
    /\ \E t \in tasks : t.id = last.id /\ (t.creatorId = last.actor \/ t.assigneeId = {last.actor})

(***************************************************************************)
(* C30: no handler of a route of /api/tasks or /api/users runs unless      *)
(* authenticateToken has verified the bearer token: without a token the    *)
(* answer is 401 UNAUTHORIZED, with an invalid or expired token 403        *)
(* FORBIDDEN, without JWT_SECRET 500, and the store is not touched.        *)
(***************************************************************************)
C30_NoToken == {<< >>, Bearer(<< >>), Bearer(<<Token("empty", "")>>)}

C30_BadToken == {Bearer(<<Token(k, u)>>) : k \in {"expired", "forged"}, u \in {"u1", "u3"}}

C30_GoodToken == {Bearer(<<Token("valid", u)>>) : u \in UserIds \cup {NoSuchUser}}

C30_Requests ==
    {[ApiRequest(rt, h) EXCEPT !.id = id] :
        rt \in TaskRoutes \cup UserRoutes,
        h \in C30_NoToken \cup C30_BadToken \cup C30_GoodToken,
        id \in 1..MaxTasks}

\* The request was turned away with this status and code, and nothing was
\* read or written for it.
C30_TurnedAway(y, status, code) ==
    /\ y.resp.status = status
    /\ y.resp.code = code
    /\ y.resp.data = {}
    /\ y.resp.calls = {}
    /\ y.st = Store

\* C30: a request to /api/tasks or /api/users is answered 401 UNAUTHORIZED
\* without a token, 500 with a token but no JWT_SECRET, 403 FORBIDDEN with
\* an invalid or expired token, in each case without a service call or a
\* change of the store; a service call is made only for a verified token.
C30_RoutesRequireVerifiedToken ==
    \A e \in Environments, req \in C30_Requests : \A y \in router(Store, e, req) :
        /\ req.headers \in C30_NoToken => C30_TurnedAway(y, 401, "UNAUTHORIZED")
        /\ req.headers \notin C30_NoToken /\ e.JWT_SECRET = {}
                => C30_TurnedAway(y, 500, "INTERNAL_ERROR")
        /\ req.headers \in C30_BadToken /\ e.JWT_SECRET # {}
                => C30_TurnedAway(y, 403, "FORBIDDEN")
        /\ y.resp.calls # {} \/ y.st # Store
                => req.headers \in C30_GoodToken /\ e.JWT_SECRET # {}

\* A request with a bad token has just been answered 403 although the task
\* it names is stored.
C30_Witness ==
    /\ last.op \in TaskRoutes
    /\ last.ret.status = 403
    /\ \E t \in tasks : t.id = last.id

=============================================================================
